---- MODULE Spec2Model ----
(***************************************************************************)
(* Jobly Express API: the SQL fragment compilers of helpers/sql.js         *)
(* (sqlForPartialUpdate, sqlForFilterQueries) and the Job model that       *)
(* splices their output into statements sent to the database.              *)
(*                                                                         *)
(* A JavaScript string is the sequence of its characters, each character a *)
(* one-character TLA+ string, so that concatenation, case folding, numeric *)
(* coercion and the reading of a placeholder are computed on the text.     *)
(* A JavaScript object is the sequence of its <<key, value>> pairs in      *)
(* insertion order, with distinct keys.                                    *)
(***************************************************************************)
EXTENDS Integers, Sequences, FiniteSets, TLC

VARIABLES
  pc,            \* position of the caller of a compiler: "call" or "done"
  queries,       \* argument of sqlForFilterQueries
  allowed,       \* argument of sqlForFilterQueries
  filterRes,     \* outcome of the sqlForFilterQueries call
  dataToUpdate,  \* argument of sqlForPartialUpdate
  jsToSql,       \* argument of sqlForPartialUpdate
  updateRes,     \* outcome of the sqlForPartialUpdate call
  jobs,          \* the jobs table: id -> row
  jobIdSeq,      \* last value of the sequence behind jobs.id
  users,         \* the users table: the usernames of its rows
  sqlLog,        \* statements handed to db.query by the last Job method call
  jobCall,       \* the last Job method call: method, arguments, outcome
  nCalls,        \* number of calls made so far
  req,           \* the request being handled: route, query, headers, params
  resLocals,     \* res.locals of the request being handled
  nextCalls,     \* the calls of next made for the request, each with its argument
  resJson        \* the body handed to res.json for the request

\* the request and the response of the web layer
webVars == <<req, resLocals, nextCalls, resJson>>

vars == <<pc, queries, allowed, filterRes, dataToUpdate, jsToSql, updateRes,
          jobs, jobIdSeq, users, sqlLog, jobCall, nCalls, req, resLocals, nextCalls, resJson>>

----------------------------------------------------------------------------
(* Bounds of the model. *)

\* largest number of keys of a request object
MaxKeys == 2
\* longest generated free-text value
MaxValLen == 1
\* largest number of Job method calls in one behaviour
MaxCalls == 2
\* largest number of calls of the compilers in one sequence of calls
MaxCompilerCalls == 3
\* number of Job.create calls in flight at the same time
MaxCreators == 2

----------------------------------------------------------------------------
(* Text. *)

S_name == <<"n", "a", "m", "e">>
S_title == <<"t", "i", "t", "l", "e">>
S_minEmployees == <<"m", "i", "n", "E", "m", "p", "l", "o", "y", "e", "e", "s">>
S_maxEmployees == <<"m", "a", "x", "E", "m", "p", "l", "o", "y", "e", "e", "s">>
S_minSalary == <<"m", "i", "n", "S", "a", "l", "a", "r", "y">>
S_hasEquity == <<"h", "a", "s", "E", "q", "u", "i", "t", "y">>
S_cats == <<"c", "a", "t", "s">>
S_null == <<"n", "u", "l", "l">>
S_undefined == <<"u", "n", "d", "e", "f", "i", "n", "e", "d">>
S_true == <<"t", "r", "u", "e">>
S_false == <<"f", "a", "l", "s", "e">>
S_NaN == <<"N", "a", "N">>

UpperChars == <<"A", "B", "C", "D", "E", "F", "G", "H", "I", "J", "K", "L", "M",
                "N", "O", "P", "Q", "R", "S", "T", "U", "V", "W", "X", "Y", "Z">>
LowerChars == <<"a", "b", "c", "d", "e", "f", "g", "h", "i", "j", "k", "l", "m",
                "n", "o", "p", "q", "r", "s", "t", "u", "v", "w", "x", "y", "z">>
DigitChars == <<"0", "1", "2", "3", "4", "5", "6", "7", "8", "9">>

\* Array.prototype.includes on an array of strings
Includes(arr, x) == \E i \in 1..Len(arr) : arr[i] = x

\* Array.prototype.join
RECURSIVE Join(_, _)
Join(parts, sep) ==
  IF Len(parts) = 0 THEN <<>>
  ELSE IF Len(parts) = 1 THEN parts[1]
  ELSE parts[1] \o sep \o Join(Tail(parts), sep)

\* String.prototype.toLowerCase, character by character
LowerChar(c) ==
  IF \E i \in 1..Len(UpperChars) : UpperChars[i] = c
  THEN LowerChars[CHOOSE i \in 1..Len(UpperChars) : UpperChars[i] = c]
  ELSE c

ToLowerCase(s) == [i \in 1..Len(s) |-> LowerChar(s[i])]

----------------------------------------------------------------------------
(* Numbers: a JavaScript number is NaN or an integer.                      *)

NaN == [nan |-> TRUE, n |-> 0]
Num(k) == [nan |-> FALSE, n |-> k]

IsDigit(c) == \E i \in 1..Len(DigitChars) : DigitChars[i] = c
DigitVal(c) == (CHOOSE i \in 1..Len(DigitChars) : DigitChars[i] = c) - 1

RECURSIVE TrimStart(_)
TrimStart(s) == IF Len(s) > 0 /\ s[1] = " " THEN TrimStart(Tail(s)) ELSE s

RECURSIVE TrimEnd(_)
TrimEnd(s) ==
  IF Len(s) > 0 /\ s[Len(s)] = " " THEN TrimEnd(SubSeq(s, 1, Len(s) - 1)) ELSE s

RECURSIVE DecimalValue(_)
DecimalValue(s) ==
  IF Len(s) = 0 THEN 0
  ELSE 10 * DecimalValue(SubSeq(s, 1, Len(s) - 1)) + DigitVal(s[Len(s)])

\* The unary plus of sql.js applied to a string (ECMAScript StringToNumber):
\* surrounding white space is dropped, the empty text is 0, a run of
\* decimal digits is its value, any other text of the modelled alphabet
\* (letters, quote, inner blank) is NaN.
ToNumber(s) ==
  LET t == TrimEnd(TrimStart(s)) IN
  IF Len(t) = 0 THEN Num(0)
  ELSE IF \A i \in 1..Len(t) : IsDigit(t[i]) THEN Num(DecimalValue(t))
  ELSE NaN

RECURSIVE DecimalText(_)
DecimalText(k) ==
  IF k < 10 THEN <<DigitChars[k + 1]>>
  ELSE DecimalText(k \div 10) \o <<DigitChars[(k % 10) + 1]>>

\* The text a template literal gives a number (Number::toString)
NumberToString(x) == IF x.nan THEN S_NaN ELSE DecimalText(x.n)

\* The >= of two numbers: false as soon as one of them is NaN
NumGreaterEq(x, y) == ~x.nan /\ ~y.nan /\ x.n >= y.n

----------------------------------------------------------------------------
(* Objects. *)

Keys(obj) == [i \in 1..Len(obj) |-> obj[i][1]]
Values(obj) == [i \in 1..Len(obj) |-> obj[i][2]]
HasKey(obj, k) == \E i \in 1..Len(obj) : obj[i][1] = k
Get(obj, k) == obj[CHOOSE i \in 1..Len(obj) : obj[i][1] = k][2]

----------------------------------------------------------------------------
(* Outcomes of a call: a returned value or a thrown error. *)

Return(v) == [kind |-> "return", msg |-> "", value |-> v]
Throw(kind, msg) == [kind |-> kind, msg |-> msg, value |-> <<>>]
NotCalled == [kind |-> "none", msg |-> "", value |-> <<>>]

----------------------------------------------------------------------------
(* helpers/sql.js: sqlForFilterQueries *)

\* config.REJECTEDVALUES: the sentinel values no filter may carry
REJECTEDVALUES == << <<>>, <<" ">>, S_null, S_undefined >>

\* an allow-list argument; Job.filter passes none, so the parameter is undefined
AllowList(items) == [defined |-> TRUE, items |-> items]
Undefined == [defined |-> FALSE, items |-> <<>>]

\* the fragment of minEmployees or maxEmployees
EmployeesFragment(q, colName) ==
  IF colName = S_minEmployees
  THEN <<"n", "u", "m", "_", "e", "m", "p", "l", "o", "y", "e", "e", "s",
         " ", ">", "=", " ">> \o NumberToString(ToNumber(Get(q, colName)))
  ELSE <<"n", "u", "m", "_", "e", "m", "p", "l", "o", "y", "e", "e", "s",
         " ", "<", "=", " ">> \o NumberToString(ToNumber(Get(q, colName)))

\* the fragment of minSalary
SalaryFragment(q, colName) ==
  <<"s", "a", "l", "a", "r", "y", " ", ">", "=", " ">>
    \o NumberToString(ToNumber(Get(q, colName)))

\* C9 mutant: the value is compared with 'true' as typed
EquityFragment_CaseSensitive(q) ==
  IF Get(q, S_hasEquity) = S_true
  THEN <<"e", "q", "u", "i", "t", "y", " ", ">", " ", "0">>
  ELSE <<"e", "q", "u", "i", "t", "y", " ", ">", "=", " ", "0">>

\* the fragment of hasEquity
EquityFragment(q) ==
  IF ToLowerCase(Get(q, S_hasEquity)) = S_true
  THEN <<"e", "q", "u", "i", "t", "y", " ", ">", " ", "0">>
  ELSE <<"e", "q", "u", "i", "t", "y", " ", ">", "=", " ", "0">>

\* C10 mutant: the value is interpolated as typed
LikeFragment_AsTyped(q, colName) ==
  <<"l", "o", "w", "e", "r", "(">> \o colName
    \o <<")", " ", "L", "I", "K", "E", " ", "'", "%">>
    \o Get(q, colName) \o <<"%", "'">>

\* the fragment of any other key
LikeFragment(q, colName) ==
  <<"l", "o", "w", "e", "r", "(">> \o colName
    \o <<")", " ", "L", "I", "K", "E", " ", "'", "%">>
    \o ToLowerCase(Get(q, colName)) \o <<"%", "'">>

\* one fragment of the predicate: the dispatch on the key
Fragment(q, colName) ==
  IF colName = S_minEmployees \/ colName = S_maxEmployees
  THEN EmployeesFragment(q, colName)
  ELSE IF colName = S_minSalary
  THEN SalaryFragment(q, colName)
  ELSE IF colName = S_hasEquity
  THEN EquityFragment(q)
  ELSE LikeFragment(q, colName)

\* C1 mutant: one allowed key is enough
KeysAllowed_Some(q, a) == \E i \in 1..Len(q) : Includes(a.items, Keys(q)[i])

\* every key is in the allow-list
KeysAllowed(q, a) == \A i \in 1..Len(q) : Includes(a.items, Keys(q)[i])

\* C2 mutant: only the first value is looked at
HasRejectedValue_First(q) == Len(q) > 0 /\ Includes(REJECTEDVALUES, Values(q)[1])

\* some value is a rejected sentinel
HasRejectedValue(q) == \E i \in 1..Len(q) : Includes(REJECTEDVALUES, Values(q)[i])

\* both employee bounds are given and the minimum is not below the maximum
RangeViolated(q) ==
  /\ Includes(Keys(q), S_minEmployees)
  /\ Includes(Keys(q), S_maxEmployees)
  /\ NumGreaterEq(ToNumber(Get(q, S_minEmployees)), ToNumber(Get(q, S_maxEmployees)))

\* C11 mutant: the fragments are joined by a comma
sqlForFilterQueries_CommaJoined(q, a) ==
  IF Len(q) > 0 /\ ~a.defined
  THEN Throw("TypeError", "Cannot read properties of undefined (reading 'includes')")
  ELSE IF ~KeysAllowed(q, a)
  THEN Throw("BadRequestError", "invalid query parameter")
  ELSE IF HasRejectedValue(q)
  THEN Throw("BadRequestError", "invalid query value")
  ELSE IF RangeViolated(q)
  THEN Throw("BadRequestError", "minEmployees cannot be larger than maxEmployees")
  ELSE Return(Join([i \in 1..Len(q) |-> Fragment(q, Keys(q)[i])], <<",", " ">>))

\* C12 mutant: a request without keys is refused, as the update compiler does
sqlForFilterQueries_EmptyRefused(q, a) ==
  IF Len(q) = 0
  THEN Throw("BadRequestError", "No data")
  ELSE IF ~a.defined
  THEN Throw("TypeError", "Cannot read properties of undefined (reading 'includes')")
  ELSE IF ~KeysAllowed(q, a)
  THEN Throw("BadRequestError", "invalid query parameter")
  ELSE IF HasRejectedValue(q)
  THEN Throw("BadRequestError", "invalid query value")
  ELSE IF RangeViolated(q)
  THEN Throw("BadRequestError", "minEmployees cannot be larger than maxEmployees")
  ELSE Return(Join([i \in 1..Len(q) |-> Fragment(q, Keys(q)[i])],
                   <<" ", "A", "N", "D", " ">>))

\* C27 mutant: the range check runs before the rejected-value check
sqlForFilterQueries_RangeFirst(q, a) ==
  IF Len(q) > 0 /\ ~a.defined
  THEN Throw("TypeError", "Cannot read properties of undefined (reading 'includes')")
  ELSE IF ~KeysAllowed(q, a)
  THEN Throw("BadRequestError", "invalid query parameter")
  ELSE IF RangeViolated(q)
  THEN Throw("BadRequestError", "minEmployees cannot be larger than maxEmployees")
  ELSE IF HasRejectedValue(q)
  THEN Throw("BadRequestError", "invalid query value")
  ELSE Return(Join([i \in 1..Len(q) |-> Fragment(q, Keys(q)[i])],
                   <<" ", "A", "N", "D", " ">>))

sqlForFilterQueries(q, a) ==
  IF Len(q) > 0 /\ ~a.defined
  THEN Throw("TypeError", "Cannot read properties of undefined (reading 'includes')")
  ELSE IF ~KeysAllowed(q, a)
  THEN Throw("BadRequestError", "invalid query parameter")
  ELSE IF HasRejectedValue(q)
  THEN Throw("BadRequestError", "invalid query value")
  ELSE IF RangeViolated(q)
  THEN Throw("BadRequestError", "minEmployees cannot be larger than maxEmployees")
  ELSE Return(Join([i \in 1..Len(q) |-> Fragment(q, Keys(q)[i])],
                   <<" ", "A", "N", "D", " ">>))

----------------------------------------------------------------------------
(* helpers/sql.js: sqlForPartialUpdate *)

\* values of an update request: a string, a number, a boolean or null
Str(s) == [t |-> "string", s |-> s, n |-> 0]
NumV(k) == [t |-> "number", s |-> <<>>, n |-> k]
Bool(b) == [t |-> "boolean", s |-> <<>>, n |-> IF b THEN 1 ELSE 0]
Null == [t |-> "null", s |-> <<>>, n |-> 0]

\* jsToSql[colName] || colName: the mapped name when there is a non-empty one
ColumnName(map, colName) ==
  IF HasKey(map, colName) /\ Len(Get(map, colName)) > 0
  THEN Get(map, colName)
  ELSE colName

\* C14 mutant: the placeholders are numbered on from the earlier calls
SetCol_Counted(map, colName, idx) ==
  <<"\"">> \o ColumnName(map, colName) \o <<"\"", "=", "$">> \o DecimalText(nCalls + idx + 1)

\* C5 mutant: the placeholder is the 0-based index
SetCol_ZeroBased(map, colName, idx) ==
  <<"\"">> \o ColumnName(map, colName) \o <<"\"", "=", "$">> \o DecimalText(idx)

\* one assignment: "<column>"=$<idx + 1>, idx the 0-based position of the key
SetCol(map, colName, idx) ==
  <<"\"">> \o ColumnName(map, colName) \o <<"\"", "=", "$">> \o DecimalText(idx + 1)

\* C4 mutant: an empty request compiles to an empty assignment list
sqlForPartialUpdate_NoCheck(data, map) ==
  Return([setCols |-> Join([i \in 1..Len(data) |-> SetCol(map, Keys(data)[i], i - 1)],
                           <<",", " ">>),
          values |-> Values(data)])

\* C6 mutant: null values are left out of the value array
sqlForPartialUpdate_DropNull(data, map) ==
  IF Len(Keys(data)) = 0
  THEN Throw("BadRequestError", "No data")
  ELSE Return([setCols |-> Join([i \in 1..Len(data) |-> SetCol(map, Keys(data)[i], i - 1)],
                                <<",", " ">>),
               values |-> SelectSeq(Values(data), LAMBDA v : v.t # "null")])

sqlForPartialUpdate(data, map) ==
  IF Len(Keys(data)) = 0
  THEN Throw("BadRequestError", "No data")
  ELSE Return([setCols |-> Join([i \in 1..Len(data) |-> SetCol(map, Keys(data)[i], i - 1)],
                                <<",", " ">>),
               values |-> Values(data)])

----------------------------------------------------------------------------
(* Inputs of the filter compiler. *)

\* the allow-list of the compiler's tests
TestAllowed ==
  AllowList(<<S_name, S_minEmployees, S_maxEmployees, S_title, S_minSalary, S_hasEquity>>)

\* the keys of the company search and of the job search
CompanyAllowed == AllowList(<<S_name, S_minEmployees, S_maxEmployees>>)
JobAllowed == AllowList(<<S_title, S_minSalary, S_hasEquity>>)

AllowLists == {TestAllowed, CompanyAllowed, JobAllowed}

\* keys a request may carry: the six filter keys and one that is none
FilterKeys ==
  {S_name, S_title, S_minEmployees, S_maxEmployees, S_minSalary, S_hasEquity, S_cats}

\* characters of generated values: letters in both cases, digits, blank, quote
ValueChars == {"a", "A", "1", "2", " ", "'"}

\* longer values: the sentinel words, the boolean words, a two-digit number
ValueWords ==
  {S_null, S_undefined, S_true, <<"T", "R", "U", "E">>, <<"T", "r", "u", "e">>,
   S_false, <<"1", "2">>}

TextUpTo(n) == UNION {[1..k -> ValueChars] : k \in 0..n}

FilterValues == TextUpTo(MaxValLen) \cup ValueWords

\* the sequences of n distinct members of K
DistinctSeqs(K, n) == {ks \in [1..n -> K] : \A i, j \in 1..n : i # j => ks[i] # ks[j]}

\* the object with keys ks and values vs, in this order
ObjectOf(ks, vs) == [i \in 1..Len(ks) |-> <<ks[i], vs[i]>>]

\* the objects with at most n keys, keys from K, values from V
Objects(K, V, n) ==
  UNION { {ObjectOf(ks, vs) : ks \in DistinctSeqs(K, k), vs \in [1..k -> V]} : k \in 0..n }

----------------------------------------------------------------------------
(* The web layer before any request. *)

\* req.headers: absent, or present with or without an authorization header
NoHeaders == [defined |-> FALSE, hasAuth |-> FALSE, authorization |-> <<>>]
Headers(hasAuth, text) == [defined |-> TRUE, hasAuth |-> hasAuth, authorization |-> text]

NoRequest ==
  [route |-> "none", query |-> <<>>, headers |-> NoHeaders, params |-> <<>>, body |-> <<>>]

\* res.locals: an object with or without the property user
NoUser == [set |-> FALSE, username |-> <<>>, isAdmin |-> FALSE]
Locals(user) == [user |-> user]

\* nothing was handed to res.json
NoJson == [sent |-> FALSE, body |-> <<>>]

InitWeb ==
  /\ req = NoRequest
  /\ resLocals = Locals(NoUser)
  /\ nextCalls = <<>>
  /\ resJson = NoJson

----------------------------------------------------------------------------
(* A call of sqlForFilterQueries on drawn arguments. *)

InitIdle ==
  /\ InitWeb
  /\ dataToUpdate = <<>>
  /\ jsToSql = <<>>
  /\ updateRes = NotCalled
  /\ jobs = <<>>
  /\ jobIdSeq = 0
  /\ users = {}
  /\ sqlLog = <<>>
  /\ jobCall = NotCalled
  /\ nCalls = 0

InitFilter ==
  /\ pc = "call"
  /\ \E k \in 0..MaxKeys :
       \E ks \in DistinctSeqs(FilterKeys, k), vs \in [1..k -> FilterValues] :
         queries = ObjectOf(ks, vs)
  /\ allowed \in AllowLists
  /\ filterRes = NotCalled
  /\ InitIdle

CallFilter ==
  /\ pc = "call"
  /\ filterRes' = sqlForFilterQueries(queries, allowed)
  /\ pc' = "done"
  /\ UNCHANGED <<queries, allowed, dataToUpdate, jsToSql, updateRes,
                 jobs, jobIdSeq, users, sqlLog, jobCall, nCalls>>
  /\ UNCHANGED webVars

NextFilter == CallFilter

SpecFilter == InitFilter /\ [][NextFilter]_vars

----------------------------------------------------------------------------
(* Reading a predicate back: its fragments are the pieces between the      *)
(* separators " AND ".                                                     *)

StartsAt(s, sub, i) ==
  /\ i >= 1
  /\ i + Len(sub) - 1 <= Len(s)
  /\ \A k \in 1..Len(sub) : s[i + k - 1] = sub[k]

\* the first position at which sub occurs in s, 0 if it does not occur
FirstIndex(s, sub) ==
  LET at == {i \in 1..(Len(s) - Len(sub) + 1) : s[i] = sub[1] /\ StartsAt(s, sub, i)} IN
  IF at = {} THEN 0 ELSE CHOOSE i \in at : \A j \in at : i <= j

RECURSIVE Split(_, _)
Split(s, sep) ==
  LET k == FirstIndex(s, sep) IN
  IF k = 0 THEN <<s>>
  ELSE <<SubSeq(s, 1, k - 1)>> \o Split(SubSeq(s, k + Len(sep), Len(s)), sep)

AllDigits(s) == Len(s) > 0 /\ \A i \in 1..Len(s) : s[i] \in {DigitChars[d] : d \in 1..10}

FilterDone == pc = "done" /\ filterRes.kind # "none"
FilterReturned == FilterDone /\ filterRes.kind = "return"
Pieces == Split(filterRes.value, <<" ", "A", "N", "D", " ">>)
KeyAt(i) == queries[i][1]
ValueAt(i) == queries[i][2]
SomeKeyNotAllowed == \E i \in 1..Len(queries) : \A j \in 1..Len(allowed.items) : allowed.items[j] # KeyAt(i)
AllKeysAllowed == ~SomeKeyNotAllowed

\* C1: a request with a key outside the allow-list fails with BadRequestError
\* 'invalid query parameter' and yields no predicate, whatever else it holds.
C1_InvalidKeyRejected ==
  (FilterDone /\ SomeKeyNotAllowed)
    => /\ filterRes.kind = "BadRequestError"
       /\ filterRes.msg = "invalid query parameter"
       /\ filterRes.value = <<>>

\* C1 witness: a disallowed key beside an allowed key with an accepted value
C1_Witness ==
  /\ FilterDone
  /\ Len(queries) = 2
  /\ KeyAt(1) = S_name /\ ValueAt(1) = <<"a">>
  /\ KeyAt(2) = S_cats
  /\ allowed = TestAllowed
  /\ filterRes.kind = "BadRequestError"

\* the four sentinel values named by the error taxonomy
SentinelValues == { <<>>, <<" ">>, S_null, S_undefined }

\* C2: with every key allowed, a request carrying a sentinel value ("", " ",
\* "null", "undefined") under any key fails with BadRequestError 'invalid query
\* value' and yields no predicate.
C2_SentinelValueRejected ==
  (FilterDone /\ AllKeysAllowed /\ \E i \in 1..Len(queries) : ValueAt(i) \in SentinelValues)
    => /\ filterRes.kind = "BadRequestError"
       /\ filterRes.msg = "invalid query value"
       /\ filterRes.value = <<>>

\* C2 witness: the sentinel is the value of the second key
C2_Witness ==
  /\ FilterDone
  /\ Len(queries) = 2
  /\ AllKeysAllowed
  /\ ValueAt(1) = <<"a">>
  /\ ValueAt(2) = S_undefined
  /\ filterRes.msg = "invalid query value"

\* C3: a predicate returned for a request with both minEmployees and
\* maxEmployees has a minimum numerically strictly less than the maximum.
C3_ReturnedRangeOrdered ==
  (FilterReturned /\ HasKey(queries, S_minEmployees) /\ HasKey(queries, S_maxEmployees))
    => LET lo == ToNumber(Get(queries, S_minEmployees))
           hi == ToNumber(Get(queries, S_maxEmployees))
       IN  ~lo.nan /\ ~hi.nan /\ lo.n < hi.n

\* C8: the operand of a minEmployees, maxEmployees or minSalary fragment is a
\* numeric literal: the comparison text followed by decimal digits only.
C8_NumericOperand ==
  FilterReturned =>
    \A i \in 1..Len(queries) :
      LET head == IF KeyAt(i) = S_minEmployees
                  THEN <<"n", "u", "m", "_", "e", "m", "p", "l", "o", "y", "e", "e", "s",
                         " ", ">", "=", " ">>
                  ELSE IF KeyAt(i) = S_maxEmployees
                  THEN <<"n", "u", "m", "_", "e", "m", "p", "l", "o", "y", "e", "e", "s",
                         " ", "<", "=", " ">>
                  ELSE <<"s", "a", "l", "a", "r", "y", " ", ">", "=", " ">>
      IN  KeyAt(i) \in {S_minEmployees, S_maxEmployees, S_minSalary}
            => /\ Len(Pieces) = Len(queries)
               /\ StartsAt(Pieces[i], head, 1)
               /\ AllDigits(SubSeq(Pieces[i], Len(head) + 1, Len(Pieces[i])))

\* equality with "true" that ignores letter case
IsTrueIgnoringCase(v) ==
  /\ Len(v) = 4
  /\ v[1] \in {"t", "T"} /\ v[2] \in {"r", "R"} /\ v[3] \in {"u", "U"} /\ v[4] \in {"e", "E"}

\* C9: the hasEquity fragment is 'equity > 0' exactly when the value is
\* "true" in any letter case, and 'equity >= 0' for every other accepted value.
C9_HasEquityFragment ==
  FilterReturned =>
    \A i \in 1..Len(queries) :
      KeyAt(i) = S_hasEquity
        => /\ Len(Pieces) = Len(queries)
           /\ IsTrueIgnoringCase(ValueAt(i))
                => Pieces[i] = <<"e", "q", "u", "i", "t", "y", " ", ">", " ", "0">>
           /\ ~IsTrueIgnoringCase(ValueAt(i))
                => Pieces[i] = <<"e", "q", "u", "i", "t", "y", " ", ">", "=", " ", "0">>

\* C9 witness: an upper-case TRUE gave the strict comparison
C9_Witness ==
  /\ FilterReturned
  /\ Len(queries) = 2
  /\ KeyAt(2) = S_hasEquity
  /\ ValueAt(2) = <<"T", "R", "U", "E">>
  /\ Pieces[2] = <<"e", "q", "u", "i", "t", "y", " ", ">", " ", "0">>

\* s is t with every upper-case letter replaced by its lower-case letter
IsLowerCaseOf(s, t) ==
  /\ Len(s) = Len(t)
  /\ \A i \in 1..Len(t) :
       \/ \E k \in 1..26 : t[i] = UpperChars[k] /\ s[i] = LowerChars[k]
       \/ (\A k \in 1..26 : t[i] # UpperChars[k]) /\ s[i] = t[i]

FreeTextKey(k) == k \notin {S_minEmployees, S_maxEmployees, S_minSalary, S_hasEquity}

\* the same request with the value of its i-th key replaced by v
WithValue(q, i, v) == [q EXCEPT ![i] = <<q[i][1], v>>]

\* C10: the fragment of a free-text key is lower(<key>) LIKE '%<v>%' with
\* <v> the value in lower case, and a value differing from it only in
\* letter case compiles to the same predicate.
C10_FreeTextFragment ==
  FilterReturned =>
    \A i \in 1..Len(queries) :
      FreeTextKey(KeyAt(i))
        => LET head == <<"l", "o", "w", "e", "r", "(">> \o KeyAt(i)
                         \o <<")", " ", "L", "I", "K", "E", " ", "'", "%">>
               p == Pieces[i]
           IN  /\ Len(Pieces) = Len(queries)
               /\ StartsAt(p, head, 1)
               /\ StartsAt(p, <<"%", "'">>, Len(p) - 1)
               /\ Len(p) >= Len(head) + 2
               /\ IsLowerCaseOf(SubSeq(p, Len(head) + 1, Len(p) - 2), ValueAt(i))
               /\ \A v \in FilterValues :
                    (IsLowerCaseOf(SubSeq(p, Len(head) + 1, Len(p) - 2), v)
                       /\ ~Includes(REJECTEDVALUES, v))
                      => sqlForFilterQueries(WithValue(queries, i, v), allowed) = filterRes

\* C10 witness: an upper-case value under the key title
C10_Witness ==
  /\ FilterReturned
  /\ Len(queries) = 2
  /\ KeyAt(1) = S_title
  /\ ValueAt(1) = <<"A">>
  /\ Pieces[1] = <<"l", "o", "w", "e", "r", "(", "t", "i", "t", "l", "e", ")", " ",
                   "L", "I", "K", "E", " ", "'", "%", "a", "%", "'">>

\* the number of places at which sub occurs in s
Occurrences(s, sub) ==
  Cardinality({i \in 1..(Len(s) - Len(sub) + 1) : StartsAt(s, sub, i)})

\* C11: a returned predicate of a request with n >= 1 keys is n fragments,
\* the i-th the fragment of the i-th key, with n - 1 separators ' AND '
\* between them and none inside them.
C11_OneFragmentPerKey ==
  (FilterReturned /\ Len(queries) > 0) =>
    /\ Len(Pieces) = Len(queries)
    /\ \A i \in 1..Len(queries) :
         /\ Pieces[i] = Fragment(queries, KeyAt(i))
         /\ Occurrences(Pieces[i], <<" ", "A", "N", "D", " ">>) = 0
    /\ Occurrences(filterRes.value, <<" ", "A", "N", "D", " ">>) = Len(queries) - 1

\* C11 witness: a name and a lower bound, compiled in this order
C11_Witness ==
  /\ FilterReturned
  /\ Len(queries) = 2
  /\ KeyAt(1) = S_name /\ ValueAt(1) = <<"a">>
  /\ KeyAt(2) = S_minEmployees /\ ValueAt(2) = <<"1", "2">>
  /\ filterRes.value =
       <<"l", "o", "w", "e", "r", "(", "n", "a", "m", "e", ")", " ", "L", "I", "K", "E",
         " ", "'", "%", "a", "%", "'", " ", "A", "N", "D", " ",
         "n", "u", "m", "_", "e", "m", "p", "l", "o", "y", "e", "e", "s", " ", ">", "=",
         " ", "1", "2">>

\* C12: a request without keys compiles to the empty string without an
\* error, whatever the allow-list is, a missing or an empty one included.
C12_EmptyRequestEmptyText ==
  (FilterDone /\ Len(queries) = 0) =>
    /\ filterRes = Return(<<>>)
    /\ \A a \in AllowLists \cup {Undefined, AllowList(<<>>)} :
         sqlForFilterQueries(queries, a) = Return(<<>>)

\* C12 witness: the empty request compiled under the job search's allow-list
C12_Witness ==
  /\ FilterDone
  /\ queries = <<>>
  /\ allowed = JobAllowed
  /\ filterRes.kind = "return"
  /\ filterRes.value = <<>>

----------------------------------------------------------------------------
(* Inputs of the update compiler, and a call of it on drawn arguments. *)

S_firstName == <<"f", "i", "r", "s", "t", "N", "a", "m", "e">>
S_isAdmin == <<"i", "s", "A", "d", "m", "i", "n">>
S_email == <<"e", "m", "a", "i", "l">>
S_salary == <<"s", "a", "l", "a", "r", "y">>
S_equity == <<"e", "q", "u", "i", "t", "y">>

\* the name map of the compiler's tests
UserNameMap ==
  << <<S_firstName, <<"f", "i", "r", "s", "t", "_", "n", "a", "m", "e">> >>,
     << <<"l", "a", "s", "t", "N", "a", "m", "e">>,
        <<"l", "a", "s", "t", "_", "n", "a", "m", "e">> >>,
     <<S_isAdmin, <<"i", "s", "_", "a", "d", "m", "i", "n">> >> >>

\* the name map Job.update passes
JobNameMap == <<>>

NameMaps == {UserNameMap, JobNameMap}

UpdateKeys == {S_firstName, S_isAdmin, S_email, S_title}
UpdateValues == {Str(<<"a">>), NumV(1), Bool(TRUE), Null}
UpdateRequests == Objects(UpdateKeys, UpdateValues, MaxKeys)

InitUpdate ==
  /\ pc = "call"
  /\ dataToUpdate \in UpdateRequests
  /\ jsToSql \in NameMaps
  /\ updateRes = NotCalled
  /\ queries = <<>>
  /\ allowed = Undefined
  /\ filterRes = NotCalled
  /\ jobs = <<>>
  /\ jobIdSeq = 0
  /\ users = {}
  /\ sqlLog = <<>>
  /\ jobCall = NotCalled
  /\ nCalls = 0
  /\ InitWeb

CallUpdate ==
  /\ pc = "call"
  /\ updateRes' = sqlForPartialUpdate(dataToUpdate, jsToSql)
  /\ pc' = "done"
  /\ UNCHANGED <<queries, allowed, filterRes, dataToUpdate, jsToSql,
                 jobs, jobIdSeq, users, sqlLog, jobCall, nCalls>>
  /\ UNCHANGED webVars

NextUpdate == CallUpdate

SpecUpdate == InitUpdate /\ [][NextUpdate]_vars

----------------------------------------------------------------------------
(* Reading an assignment list back. *)

\* the numbers of the placeholders $<digits> of a text, in order of appearance
PlaceholderStarts(s) ==
  {i \in 1..(Len(s) - 1) : s[i] = "$" /\ s[i + 1] \in {DigitChars[d] : d \in 1..10}}

\* the last position of the run of digits that begins at position i
DigitRunEnd(s, i) ==
  CHOOSE e \in i..Len(s) :
    /\ \A j \in i..e : s[j] \in {DigitChars[d] : d \in 1..10}
    /\ e = Len(s) \/ s[e + 1] \notin {DigitChars[d] : d \in 1..10}

Placeholders(s) ==
  LET at == PlaceholderStarts(s) IN
  [k \in 1..Cardinality(at) |->
     LET i == CHOOSE x \in at : Cardinality({y \in at : y <= x}) = k
     IN  DecimalValue(SubSeq(s, i + 1, DigitRunEnd(s, i + 1)))]

UpdateReturned == pc = "done" /\ updateRes.kind = "return"
Assignments == Split(updateRes.value.setCols, <<",", " ">>)

\* the column the claim names for the i-th key: the mapped name if the key
\* is in the name map, the key itself otherwise
ClaimedColumn(i) ==
  LET k == dataToUpdate[i][1] IN
  IF \E j \in 1..Len(jsToSql) : jsToSql[j][1] = k
  THEN jsToSql[CHOOSE j \in 1..Len(jsToSql) : jsToSql[j][1] = k][2]
  ELSE k

\* C5: setCols is the ", "-joined list whose i-th element is "<column>"=$i,
\* <column> the mapped name of the i-th key or the key itself, and the
\* placeholders of setCols are exactly $1..$n in this order.
C5_SetColsPositions ==
  UpdateReturned =>
    /\ Len(dataToUpdate) > 0
    /\ Len(Assignments) = Len(dataToUpdate)
    /\ \A i \in 1..Len(dataToUpdate) :
         Assignments[i] = <<"\"">> \o ClaimedColumn(i) \o <<"\"", "=", "$">> \o DecimalText(i)
    /\ Placeholders(updateRes.value.setCols) = [i \in 1..Len(dataToUpdate) |-> i]

\* C5 witness: a mapped key after an unmapped one
C5_Witness ==
  /\ UpdateReturned
  /\ jsToSql = UserNameMap
  /\ Len(dataToUpdate) = 2
  /\ dataToUpdate[1][1] = S_email
  /\ dataToUpdate[2][1] = S_firstName
  /\ updateRes.value.setCols =
       <<"\"", "e", "m", "a", "i", "l", "\"", "=", "$", "1", ",", " ",
         "\"", "f", "i", "r", "s", "t", "_", "n", "a", "m", "e", "\"", "=", "$", "2">>

\* C6: the values array has one element per key, the i-th the unmodified
\* value of the i-th key (null included), which is the key whose assignment
\* carries placeholder $i.
C6_ValuesInKeyOrder ==
  UpdateReturned =>
    /\ Len(updateRes.value.values) = Len(dataToUpdate)
    /\ \A i \in 1..Len(dataToUpdate) :
         /\ updateRes.value.values[i] = dataToUpdate[i][2]
         /\ Placeholders(Assignments[i]) = <<i>>
         /\ StartsAt(Assignments[i], <<"\"">> \o ClaimedColumn(i) \o <<"\"">>, 1)

\* C6 witness: a null value in first position
C6_Witness ==
  /\ UpdateReturned
  /\ Len(dataToUpdate) = 2
  /\ dataToUpdate[1][2] = Null
  /\ dataToUpdate[2][2] = Str(<<"a">>)
  /\ updateRes.value.values = <<Null, Str(<<"a">>)>>

----------------------------------------------------------------------------
(* The jobs table and the database's execution of the UPDATE statement.    *)
(* A row is [id, title, salary, equity, companyHandle]; equity, a fraction *)
(* in the database, is held in thousandths.  White space of a statement's  *)
(* template is held as single blanks.                                      *)

S_companyHandle == <<"c", "o", "m", "p", "a", "n", "y", "_", "h", "a", "n", "d", "l", "e">>
S_id == <<"i", "d">>

\* the rows the test set-up inserts
FixtureJobs ==
  { [id |-> 1, title |-> Str(<<"m", "a", "n", "a", "g", "e", "r">>),
     salary |-> NumV(65000), equity |-> NumV(65), companyHandle |-> Str(<<"c", "1">>)],
    [id |-> 2, title |-> Str(<<"e", "n", "g", "i", "n", "e", "e", "r">>),
     salary |-> NumV(80000), equity |-> NumV(50), companyHandle |-> Str(<<"c", "2">>)],
    [id |-> 3, title |-> Str(<<"a", "s", "s", "o", "c", "i", "a", "t", "e">>),
     salary |-> NumV(35000), equity |-> NumV(0), companyHandle |-> Str(<<"c", "3">>)] }

UpdateHead ==
  <<"U", "P", "D", "A", "T", "E", " ", "j", "o", "b", "s", " ", "S", "E", "T", " ">>
UpdateWhere ==
  <<" ", "W", "H", "E", "R", "E", " ", "i", "d", " ", "=", " ">>
UpdateReturning ==
  <<" ", "R", "E", "T", "U", "R", "N", "I", "N", "G", " ", "i", "d", ",", " ",
    "t", "i", "t", "l", "e", ",", " ", "s", "a", "l", "a", "r", "y", ",", " ",
    "e", "q", "u", "i", "t", "y", ",", " ", "c", "o", "m", "p", "a", "n", "y",
    "_", "h", "a", "n", "d", "l", "e", " ", "A", "S", " ", "\"", "c", "o",
    "m", "p", "a", "n", "y", "H", "a", "n", "d", "l", "e", "\"">>

\* the assignment list of an UPDATE statement whose WHERE is at position w:
\* the text between SET and WHERE
SetClauseAt(text, w) == SubSeq(text, Len(UpdateHead) + 1, w - 1)
SetClause(text) == SetClauseAt(text, FirstIndex(text, UpdateWhere))

\* the text of an UPDATE statement from its WHERE operand on
WhereOperandAt(text, w) == SubSeq(text, w + Len(UpdateWhere), Len(text))
WhereOperand(text) == WhereOperandAt(text, FirstIndex(text, UpdateWhere))

\* one assignment "<column>"=$<k> read by the database: its column and k
AssignmentOk(a) ==
  /\ Len(a) >= 6
  /\ a[1] = "\""
  /\ FirstIndex(Tail(a), <<"\"">>) > 1
  /\ LET q == FirstIndex(Tail(a), <<"\"">>) + 1 IN
       /\ StartsAt(a, <<"=", "$">>, q + 1)
       /\ AllDigits(SubSeq(a, q + 3, Len(a)))

AssignmentColumn(a) == SubSeq(a, 2, FirstIndex(Tail(a), <<"\"">>))
AssignmentParam(a) ==
  DecimalValue(SubSeq(a, FirstIndex(Tail(a), <<"\"">>) + 4, Len(a)))

JobColumns == {S_id, S_title, S_salary, S_equity, S_companyHandle}

\* a row after the assignments of an UPDATE
UpdatedRow(row, assigns, params) ==
  LET New(col, old) ==
        IF \E i \in 1..Len(assigns) : AssignmentColumn(assigns[i]) = col
        THEN params[AssignmentParam(
               assigns[CHOOSE i \in 1..Len(assigns) : AssignmentColumn(assigns[i]) = col])]
        ELSE old
  IN [id |-> New(S_id, NumV(row.id)).n,
      title |-> New(S_title, row.title),
      salary |-> New(S_salary, row.salary),
      equity |-> New(S_equity, row.equity),
      companyHandle |-> New(S_companyHandle, row.companyHandle)]

\* db.query of an UPDATE jobs SET ... WHERE id = $m RETURNING ... statement:
\* an error for a statement the database cannot run, otherwise the new
\* table and the rows returned
DbUpdate(table, text, params) ==
  LET w == FirstIndex(text, UpdateWhere)
      assigns == Split(SetClauseAt(text, w), <<",", " ">>)
      wherePh == Placeholders(WhereOperandAt(text, w))
  IN
  IF \/ ~StartsAt(text, UpdateHead, 1)
     \/ w = 0
     \/ \E i \in 1..Len(assigns) : ~AssignmentOk(assigns[i])
     \/ Len(wherePh) # 1
  THEN [error |-> TRUE, msg |-> "syntax error", jobs |-> table, rows |-> <<>>]
  ELSE IF \E i \in 1..Len(assigns) : AssignmentColumn(assigns[i]) \notin JobColumns
  THEN [error |-> TRUE, msg |-> "column does not exist", jobs |-> table, rows |-> <<>>]
  ELSE IF \/ \E i \in 1..Len(assigns) : AssignmentParam(assigns[i]) \notin 1..Len(params)
          \/ wherePh[1] \notin 1..Len(params)
          \/ \E i \in 1..Len(params) :
               i # wherePh[1] /\ \A j \in 1..Len(assigns) : AssignmentParam(assigns[j]) # i
  THEN [error |-> TRUE, msg |-> "bind message supplies the wrong number of parameters",
        jobs |-> table, rows |-> <<>>]
  ELSE LET target == params[wherePh[1]]
           hit == {r \in table : target.t = "number" /\ r.id = target.n}
       IN [error |-> FALSE, msg |-> "",
           jobs |-> (table \ hit) \cup {UpdatedRow(r, assigns, params) : r \in hit},
           rows |-> IF hit = {} THEN <<>>
                    ELSE <<UpdatedRow(CHOOSE r \in hit : TRUE, assigns, params)>>]

----------------------------------------------------------------------------
(* models/job.js: Job.update *)

\* C7 mutant: the WHERE placeholder is numbered after the last value's index
IdVarIdx_NoPlusOne(values) == <<"$">> \o DecimalText(Len(values))

\* the placeholder of the id in the WHERE clause
IdVarIdx(values) == <<"$">> \o DecimalText(Len(values) + 1)

\* the statement of Job.update
UpdateSql(setCols, idVarIdx) ==
  UpdateHead \o setCols \o UpdateWhere \o idVarIdx \o UpdateReturning

\* Job.update(id, data) on a table: the new table, the statements handed to
\* db.query and the outcome of the call
Job_update(table, id, data) ==
  LET c == sqlForPartialUpdate(data, JobNameMap) IN
  IF c.kind # "return"
  THEN [jobs |-> table, log |-> <<>>, outcome |-> c]
  ELSE LET querySql == UpdateSql(c.value.setCols, IdVarIdx(c.value.values))
           params == c.value.values \o <<NumV(id)>>
           result == DbUpdate(table, querySql, params)
           log == <<[text |-> querySql, params |-> params]>>
       IN  IF result.error
           THEN [jobs |-> table, log |-> log,
                 outcome |-> Throw("DatabaseError", result.msg)]
           ELSE IF Len(result.rows) = 0
           THEN [jobs |-> result.jobs, log |-> log,
                 outcome |-> Throw("NotFoundError", "No job")]
           ELSE [jobs |-> result.jobs, log |-> log, outcome |-> Return(result.rows[1])]

----------------------------------------------------------------------------
(* The database's execution of the SELECT statements of Job.findAll and    *)
(* Job.filter.                                                             *)

SelectHead ==
  <<"S", "E", "L", "E", "C", "T", " ", "i", "d", ",", " ", "t", "i", "t", "l", "e",
    ",", " ", "s", "a", "l", "a", "r", "y", ",", " ", "e", "q", "u", "i", "t", "y",
    ",", " ", "c", "o", "m", "p", "a", "n", "y", "_", "h", "a", "n", "d", "l", "e",
    " ", "A", "S", " ", "\"", "c", "o", "m", "p", "a", "n", "y", "H", "a", "n",
    "d", "l", "e", "\"", " ", "F", "R", "O", "M", " ", "j", "o", "b", "s">>
SelectWhere == <<" ", "W", "H", "E", "R", "E", " ">>
SelectOrder == <<" ", "O", "R", "D", "E", "R", " ", "B", "Y", " ", "t", "i", "t", "l", "e">>

\* the text between FROM jobs and ORDER BY title
SelectMiddle(text) == SubSeq(text, Len(SelectHead) + 1, Len(text) - Len(SelectOrder))

\* the predicate of a SELECT statement that has a WHERE clause
WherePredicate(text) ==
  SubSeq(SelectMiddle(text), Len(SelectWhere) + 1, Len(SelectMiddle(text)))

HasWhere(text) == FirstIndex(text, SelectWhere) > 0

\* the content of a string literal: a quote stands only doubled, for one quote
RECURSIVE LiteralOk(_)
LiteralOk(t) ==
  IF Len(t) = 0 THEN TRUE
  ELSE IF t[1] # "'" THEN LiteralOk(Tail(t))
  ELSE Len(t) >= 2 /\ t[2] = "'" /\ LiteralOk(SubSeq(t, 3, Len(t)))

RECURSIVE LiteralText(_)
LiteralText(t) ==
  IF Len(t) = 0 THEN <<>>
  ELSE IF t[1] # "'" THEN <<t[1]>> \o LiteralText(Tail(t))
  ELSE <<"'">> \o LiteralText(SubSeq(t, 3, Len(t)))

LikeHead == <<"l", "o", "w", "e", "r", "(">>
LikeMid == <<")", " ", "L", "I", "K", "E", " ", "'", "%">>
LikeEnd == <<"%", "'">>
SalaryHead == <<"s", "a", "l", "a", "r", "y", " ", ">", "=", " ">>
EmployeesHeads == {<<"n", "u", "m", "_", "e", "m", "p", "l", "o", "y", "e", "e", "s", " ", ">", "=", " ">>, <<"n", "u", "m", "_", "e", "m", "p", "l", "o", "y", "e", "e", "s", " ", "<", "=", " ">>}
EquityPositive == <<"e", "q", "u", "i", "t", "y", " ", ">", " ", "0">>
EquityNotNegative == <<"e", "q", "u", "i", "t", "y", " ", ">", "=", " ", "0">>

\* one condition of a predicate as the database reads it
ReadCondition(c) ==
  LET close == FirstIndex(c, LikeMid) IN
  IF c = EquityPositive THEN [kind |-> "equity>", col |-> S_equity, text |-> <<>>, n |-> 0]
  ELSE IF c = EquityNotNegative
  THEN [kind |-> "equity>=", col |-> S_equity, text |-> <<>>, n |-> 0]
  ELSE IF StartsAt(c, SalaryHead, 1)
  THEN LET operand == SubSeq(c, Len(SalaryHead) + 1, Len(c)) IN
       IF AllDigits(operand)
       THEN [kind |-> "salary>=", col |-> S_salary, text |-> <<>>, n |-> DecimalValue(operand)]
       ELSE [kind |-> "unknown column", col |-> operand, text |-> <<>>, n |-> 0]
  ELSE IF \E h \in EmployeesHeads : StartsAt(c, h, 1)
  THEN [kind |-> "unknown column", col |-> <<>>, text |-> <<>>, n |-> 0]
  ELSE IF /\ StartsAt(c, LikeHead, 1)
          /\ close > Len(LikeHead)
          /\ Len(c) >= close + Len(LikeMid) + 1
          /\ StartsAt(c, LikeEnd, Len(c) - 1)
          /\ LiteralOk(SubSeq(c, close + Len(LikeMid), Len(c) - 2))
  THEN LET col == SubSeq(c, Len(LikeHead) + 1, close - 1) IN
       IF col \in {S_title, S_companyHandle}
       THEN [kind |-> "like", col |-> col,
             text |-> LiteralText(SubSeq(c, close + Len(LikeMid), Len(c) - 2)), n |-> 0]
       ELSE [kind |-> "unknown column", col |-> col, text |-> <<>>, n |-> 0]
  ELSE [kind |-> "syntax error", col |-> <<>>, text |-> <<>>, n |-> 0]

\* a row against one condition; a comparison with a null column is not true
RowSatisfies(row, cond) ==
  IF cond.kind = "equity>" THEN row.equity.t = "number" /\ row.equity.n > 0
  ELSE IF cond.kind = "equity>=" THEN row.equity.t = "number" /\ row.equity.n >= 0
  ELSE IF cond.kind = "salary>=" THEN row.salary.t = "number" /\ row.salary.n >= cond.n
  ELSE LET v == IF cond.col = S_title THEN row.title ELSE row.companyHandle IN
       /\ cond.kind = "like"
       /\ v.t = "string"
       /\ (Len(cond.text) = 0 \/ FirstIndex(ToLowerCase(v.s), cond.text) > 0)

\* the order of ORDER BY title on the titles of the model (lower-case words)
CharRank(c) ==
  IF \E i \in 1..26 : LowerChars[i] = c THEN CHOOSE i \in 1..26 : LowerChars[i] = c ELSE 0

RECURSIVE TextLeq(_, _)
TextLeq(a, b) ==
  IF Len(a) = 0 THEN TRUE
  ELSE IF Len(b) = 0 THEN FALSE
  ELSE IF a[1] # b[1] THEN CharRank(a[1]) < CharRank(b[1])
  ELSE TextLeq(Tail(a), Tail(b))

\* the orders in which the database may return rows under ORDER BY title:
\* rows with the same title come in any order
OrderedByTitle(rows) ==
  LET n == Cardinality(rows) IN
  {s \in [1..n -> rows] :
     /\ \A i, j \in 1..n : i # j => s[i] # s[j]
     /\ \A i \in 1..(n - 1) : TextLeq(s[i].title.s, s[i + 1].title.s)}

\* db.query of a SELECT ... FROM jobs [WHERE <predicate>] ORDER BY title
\* statement: an error for a statement the database cannot run, otherwise
\* the row sequences it may return
DbSelect(table, text) ==
  LET conds == [i \in 1..Len(Split(WherePredicate(text), <<" ", "A", "N", "D", " ">>)) |->
                  ReadCondition(Split(WherePredicate(text), <<" ", "A", "N", "D", " ">>)[i])]
  IN
  IF \/ ~StartsAt(text, SelectHead, 1)
     \/ ~StartsAt(text, SelectOrder, Len(text) - Len(SelectOrder) + 1)
     \/ Len(text) < Len(SelectHead) + Len(SelectOrder)
  THEN [error |-> TRUE, msg |-> "syntax error", rows |-> {}]
  ELSE IF SelectMiddle(text) = <<>>
  THEN [error |-> FALSE, msg |-> "", rows |-> OrderedByTitle(table)]
  ELSE IF \/ ~StartsAt(SelectMiddle(text), SelectWhere, 1)
          \/ \E i \in 1..Len(conds) : conds[i].kind = "syntax error"
  THEN [error |-> TRUE, msg |-> "syntax error", rows |-> {}]
  ELSE IF \E i \in 1..Len(conds) : conds[i].kind = "unknown column"
  THEN [error |-> TRUE, msg |-> "column does not exist", rows |-> {}]
  ELSE [error |-> FALSE, msg |-> "",
        rows |-> OrderedByTitle({r \in table : \A i \in 1..Len(conds) : RowSatisfies(r, conds[i])})]

----------------------------------------------------------------------------
(* models/job.js: Job.findAll and Job.filter.  Each gives the set of its   *)
(* possible results: the table after the call, the statements handed to    *)
(* db.query and the outcome.                                               *)

Job_findAll(table) ==
  LET sqlString == SelectHead \o SelectOrder
      jobsRes == DbSelect(table, sqlString)
      log == <<[text |-> sqlString, params |-> <<>>]>>
  IN  IF jobsRes.error
      THEN {[jobs |-> table, log |-> log, outcome |-> Throw("DatabaseError", jobsRes.msg)]}
      ELSE {[jobs |-> table, log |-> log, outcome |-> Return(rows)] : rows \in jobsRes.rows}

\* the statement of Job.filter
FilterSql(queryString) == SelectHead \o SelectWhere \o queryString \o SelectOrder

\* Job.filter calls the compiler with one argument: allowed is undefined
Job_filter(table, q) ==
  LET c == sqlForFilterQueries(q, Undefined) IN
  IF c.kind # "return"
  THEN {[jobs |-> table, log |-> <<>>, outcome |-> c]}
  ELSE LET sqlString == FilterSql(c.value)
           jobsRes == DbSelect(table, sqlString)
           log == <<[text |-> sqlString, params |-> <<>>]>>
       IN  IF jobsRes.error
           THEN {[jobs |-> table, log |-> log,
                  outcome |-> Throw("DatabaseError", jobsRes.msg)]}
           ELSE {[jobs |-> table, log |-> log,
                  outcome |-> IF Len(rows) = 0
                              THEN Throw("NotFoundError", "No jobs match the query")
                              ELSE Return(rows)] : rows \in jobsRes.rows}

----------------------------------------------------------------------------
(* models/job.js: Job.create, Job.get, Job.remove and the database's       *)
(* execution of their statements.                                          *)

\* the sequence behind jobs.id after the test set-up's three inserts
FixtureIdSeq == 3

\* the usernames the test set-up inserts
FixtureUsers == {<<"u", "1">>, <<"u", "2">>}

S_companyHandleKey == <<"c", "o", "m", "p", "a", "n", "y", "H", "a", "n", "d", "l", "e">>

DuplicateCheckSql ==
  <<"S", "E", "L", "E", "C", "T", " ", "i", "d", ",", " ", "t", "i", "t", "l", "e",
    ",", " ", "s", "a", "l", "a", "r", "y", ",", " ", "e", "q", "u", "i", "t", "y",
    ",", " ", "c", "o", "m", "p", "a", "n", "y", "_", "h", "a", "n", "d", "l", "e",
    " ", "A", "S", " ", "\"", "c", "o", "m", "p", "a", "n", "y", "H", "a", "n",
    "d", "l", "e", "\"", " ", "F", "R", "O", "M", " ", "j", "o", "b", "s", " ",
    "W", "H", "E", "R", "E", " ", "t", "i", "t", "l", "e", " ", "=", " ", "$", "1",
    " ", "A", "N", "D", " ", "s", "a", "l", "a", "r", "y", " ", "=", " ", "$", "2",
    " ", "A", "N", "D", " ", "e", "q", "u", "i", "t", "y", " ", "=", " ", "$", "3",
    " ", "A", "N", "D", " ", "c", "o", "m", "p", "a", "n", "y", "_", "h", "a", "n",
    "d", "l", "e", " ", "=", " ", "$", "4">>

InsertSql ==
  <<"I", "N", "S", "E", "R", "T", " ", "I", "N", "T", "O", " ", "j", "o", "b", "s",
    " ", "(", "t", "i", "t", "l", "e", ",", " ", "s", "a", "l", "a", "r", "y", ",",
    " ", "e", "q", "u", "i", "t", "y", ",", " ", "c", "o", "m", "p", "a", "n", "y",
    "_", "h", "a", "n", "d", "l", "e", ")", " ", "V", "A", "L", "U", "E", "S", " ",
    "(", "$", "1", ",", " ", "$", "2", ",", " ", "$", "3", ",", " ", "$", "4", ")",
    " ", "R", "E", "T", "U", "R", "N", "I", "N", "G", " ", "i", "d", ",", " ", "t",
    "i", "t", "l", "e", ",", " ", "s", "a", "l", "a", "r", "y", ",", " ", "e", "q",
    "u", "i", "t", "y", ",", " ", "c", "o", "m", "p", "a", "n", "y", "_", "h", "a",
    "n", "d", "l", "e", " ", "A", "S", " ", "\"", "c", "o", "m", "p", "a", "n",
    "y", "H", "a", "n", "d", "l", "e", "\"">>

GetSql ==
  <<"S", "E", "L", "E", "C", "T", " ", "i", "d", ",", " ", "t", "i", "t", "l", "e",
    ",", " ", "s", "a", "l", "a", "r", "y", ",", " ", "e", "q", "u", "i", "t", "y",
    ",", " ", "c", "o", "m", "p", "a", "n", "y", "_", "h", "a", "n", "d", "l", "e",
    " ", "A", "S", " ", "\"", "c", "o", "m", "p", "a", "n", "y", "H", "a", "n",
    "d", "l", "e", "\"", " ", "F", "R", "O", "M", " ", "j", "o", "b", "s", " ",
    "W", "H", "E", "R", "E", " ", "i", "d", " ", "=", " ", "$", "1">>

DeleteSql ==
  <<"D", "E", "L", "E", "T", "E", " ", "F", "R", "O", "M", " ", "j", "o", "b", "s",
    " ", "W", "H", "E", "R", "E", " ", "i", "d", " ", "=", " ", "$", "1", " ", "R",
    "E", "T", "U", "R", "N", "I", "N", "G", " ", "i", "d">>

\* a = b in a WHERE clause: not true when either side is NULL
SqlEquals(a, b) == a.t # "null" /\ b.t # "null" /\ a = b

\* a destructured parameter { k }: the property's value, null in the
\* statement's parameters when data has no such property
Field(data, k) == IF HasKey(data, k) THEN Get(data, k) ELSE Null

\* [title, salary, equity, companyHandle] of Job.create
CreateParams(data) ==
  <<Field(data, S_title), Field(data, S_salary), Field(data, S_equity),
    Field(data, S_companyHandleKey)>>

\* duplicateCheck.rows: the rows equal to the parameters in all four columns
DuplicateRows(table, params) ==
  {r \in table : /\ SqlEquals(r.title, params[1])
                 /\ SqlEquals(r.salary, params[2])
                 /\ SqlEquals(r.equity, params[3])
                 /\ SqlEquals(r.companyHandle, params[4])}

\* the row the INSERT statement adds: its id is the sequence's next value
InsertedRow(seq, params) ==
  [id |-> seq + 1, title |-> params[1], salary |-> params[2], equity |-> params[3],
   companyHandle |-> params[4]]

\* Job.create(data) on a table: the new table and sequence value, the
\* statements handed to db.query and the outcome of the call
Job_create(table, seq, data) ==
  LET params == CreateParams(data)
      check == [text |-> DuplicateCheckSql, params |-> params]
  IN  IF DuplicateRows(table, params) # {}
      THEN [jobs |-> table, seq |-> seq, log |-> <<check>>,
            outcome |-> Throw("BadRequestError", "Duplicate job")]
      ELSE [jobs |-> table \cup {InsertedRow(seq, params)}, seq |-> seq + 1,
            log |-> <<check, [text |-> InsertSql, params |-> params]>>,
            outcome |-> Return(InsertedRow(seq, params))]

\* Job.get(id)
Job_get(table, id) ==
  LET rows == {r \in table : r.id = id}
      log == <<[text |-> GetSql, params |-> <<NumV(id)>>]>>
  IN  IF rows = {}
      THEN [jobs |-> table, log |-> log, outcome |-> Throw("NotFoundError", "No job")]
      ELSE [jobs |-> table, log |-> log, outcome |-> Return(CHOOSE r \in rows : TRUE)]

\* C25 mutant: the DELETE statement has no WHERE clause
Job_remove_AllRows(table, id) ==
  LET rows == {r \in table : r.id = id}
      log == <<[text |-> DeleteSql, params |-> <<NumV(id)>>]>>
  IN  IF rows = {}
      THEN [jobs |-> {}, log |-> log, outcome |-> Throw("NotFoundError", "No company")]
      ELSE [jobs |-> {}, log |-> log, outcome |-> Return(<<>>)]

\* Job.remove(id): returns undefined
Job_remove(table, id) ==
  LET rows == {r \in table : r.id = id}
      log == <<[text |-> DeleteSql, params |-> <<NumV(id)>>]>>
  IN  IF rows = {}
      THEN [jobs |-> table, log |-> log, outcome |-> Throw("NotFoundError", "No company")]
      ELSE [jobs |-> table \ rows, log |-> log, outcome |-> Return(<<>>)]

----------------------------------------------------------------------------
(* Calls of the Job model on the jobs table. *)

\* ids a caller passes: the fixture's rows and one that matches no row
JobIds == {0, 1, 2, 3}

\* values a caller gives each field of an update
JobFieldValues(k) ==
  IF k = S_title THEN {Str(<<"a">>)}
  ELSE IF k = S_salary THEN {NumV(1), Null}
  ELSE {NumV(0), Null}

JobUpdateKeys == {S_title, S_salary, S_equity}

JobUpdateRequests ==
  {d \in Objects(JobUpdateKeys, {Str(<<"a">>), NumV(1), NumV(0), Null}, MaxKeys) :
     \A i \in 1..Len(d) : d[i][2] \in JobFieldValues(d[i][1])}

NoJobCall == [method |-> "none", id |-> 0, data |-> <<>>, outcome |-> NotCalled]

Init ==
  /\ pc = "idle"
  /\ queries = <<>>
  /\ allowed = Undefined
  /\ filterRes = NotCalled
  /\ dataToUpdate = <<>>
  /\ jsToSql = <<>>
  /\ updateRes = NotCalled
  /\ jobs = FixtureJobs
  /\ jobIdSeq = FixtureIdSeq
  /\ users = FixtureUsers
  /\ sqlLog = <<>>
  /\ jobCall = NoJobCall
  /\ nCalls = 0
  /\ InitWeb

JobUpdate(id, data) ==
  /\ nCalls < MaxCalls
  /\ LET r == Job_update(jobs, id, data) IN
       /\ jobs' = r.jobs
       /\ sqlLog' = r.log
       /\ jobCall' = [method |-> "update", id |-> id, data |-> data, outcome |-> r.outcome]
  /\ nCalls' = nCalls + 1
  /\ UNCHANGED <<pc, queries, allowed, filterRes, dataToUpdate, jsToSql, updateRes, jobIdSeq, users>>
  /\ UNCHANGED webVars

\* data a caller passes to Job.create: the fixture's associate job or a new
\* title, each with or without a salary and an equity
JobCreateRequests ==
  { << <<S_title, t>>, <<S_salary, sal>>, <<S_equity, eq>>,
       <<S_companyHandleKey, Str(<<"c", "3">>)>> >> :
      t \in {Str(<<"a", "s", "s", "o", "c", "i", "a", "t", "e">>), Str(<<"a">>)},
      sal \in {NumV(35000), Null},
      eq \in {NumV(0), Null} }

JobCreate(data) ==
  /\ nCalls < MaxCalls
  /\ LET r == Job_create(jobs, jobIdSeq, data) IN
       /\ jobs' = r.jobs
       /\ jobIdSeq' = r.seq
       /\ sqlLog' = r.log
       /\ jobCall' = [method |-> "create", id |-> 0, data |-> data, outcome |-> r.outcome]
  /\ nCalls' = nCalls + 1
  /\ UNCHANGED <<pc, queries, allowed, filterRes, dataToUpdate, jsToSql, updateRes, users>>
  /\ UNCHANGED webVars

JobGet(id) ==
  /\ nCalls < MaxCalls
  /\ LET r == Job_get(jobs, id) IN
       /\ jobs' = r.jobs
       /\ sqlLog' = r.log
       /\ jobCall' = [method |-> "get", id |-> id, data |-> <<>>, outcome |-> r.outcome]
  /\ nCalls' = nCalls + 1
  /\ UNCHANGED <<pc, queries, allowed, filterRes, dataToUpdate, jsToSql, updateRes, jobIdSeq, users>>
  /\ UNCHANGED webVars

JobRemove(id) ==
  /\ nCalls < MaxCalls
  /\ LET r == Job_remove(jobs, id) IN
       /\ jobs' = r.jobs
       /\ sqlLog' = r.log
       /\ jobCall' = [method |-> "remove", id |-> id, data |-> <<>>, outcome |-> r.outcome]
  /\ nCalls' = nCalls + 1
  /\ UNCHANGED <<pc, queries, allowed, filterRes, dataToUpdate, jsToSql, updateRes, jobIdSeq, users>>
  /\ UNCHANGED webVars

S_job == <<"j", "o", "b">>
S_manager == <<"m", "a", "n", "a", "g", "e", "r">>
S_president == <<"p", "r", "e", "s", "i", "d", "e", "n", "t">>

\* query strings of GET /jobs: the three job filter keys and one that is none
JobQueryKeys == {S_title, S_minSalary, S_hasEquity, S_job}

JobQueryValues(k) ==
  IF k = S_title THEN {S_manager, S_president, <<" ">>}
  ELSE IF k = S_minSalary THEN {<<"4", "0", "0", "0", "0">>}
  ELSE IF k = S_hasEquity THEN {S_true, S_false}
  ELSE {S_president}

JobQueries ==
  {q \in Objects(JobQueryKeys,
                 UNION {JobQueryValues(k) : k \in JobQueryKeys}, MaxKeys) :
     \A i \in 1..Len(q) : q[i][2] \in JobQueryValues(q[i][1])}

\* C13 mutant: the route always filters
UsesFilter_Always(query) == TRUE

\* routes/jobs.js GET /: Object.keys(req.query).length !== 0
UsesFilter(query) == Len(Keys(query)) # 0

\* next() and next(err): the argument of a call of next
NoError == [kind |-> "none", msg |-> "", value |-> <<>>]

\* routes/jobs.js GET /: Job.filter for a request with query parameters,
\* Job.findAll otherwise; res.json on a result, next(err) on an error
GetJobs(query) ==
  /\ nCalls < MaxCalls
  /\ \E r \in (IF UsesFilter(query) THEN Job_filter(jobs, query) ELSE Job_findAll(jobs)) :
       /\ jobs' = r.jobs
       /\ sqlLog' = r.log
       /\ jobCall' = [method |-> IF UsesFilter(query) THEN "filter" ELSE "findAll",
                      id |-> 0,
                      data |-> IF UsesFilter(query) THEN query ELSE <<>>,
                      outcome |-> r.outcome]
       /\ IF r.outcome.kind = "return"
          THEN /\ resJson' = [sent |-> TRUE, body |-> r.outcome.value]
               /\ nextCalls' = <<>>
          ELSE /\ resJson' = NoJson
               /\ nextCalls' = <<r.outcome>>
  /\ IF UsesFilter(query)
     THEN /\ queries' = query
          /\ allowed' = Undefined
          /\ filterRes' = sqlForFilterQueries(query, Undefined)
     ELSE /\ queries' = <<>>
          /\ allowed' = Undefined
          /\ filterRes' = NotCalled
  /\ req' = [route |-> "GET /jobs", query |-> query, headers |-> NoHeaders, params |-> <<>>,
             body |-> <<>>]
  /\ nCalls' = nCalls + 1
  /\ UNCHANGED <<pc, dataToUpdate, jsToSql, updateRes, resLocals, jobIdSeq, users>>

Next ==
  \/ \E id \in JobIds, data \in JobUpdateRequests : JobUpdate(id, data)
  \/ \E query \in JobQueries : GetJobs(query)
  \/ \E data \in JobCreateRequests : JobCreate(data)
  \/ \E id \in JobIds : JobGet(id)
  \/ \E id \in JobIds : JobRemove(id)

Spec == Init /\ [][Next]_vars

----------------------------------------------------------------------------

\* C4: sqlForPartialUpdate throws BadRequestError on a data map with no
\* keys for any name map, and a Job.update(id, {}) call hands no statement
\* to the database and leaves the jobs table as it was.
C4_EmptyUpdateRejected ==
  [][ (nCalls' = nCalls + 1 /\ jobCall'.method = "update" /\ jobCall'.data = <<>>)
        => /\ \A m \in NameMaps :
                sqlForPartialUpdate(jobCall'.data, m).kind = "BadRequestError"
           /\ jobCall'.outcome.kind = "BadRequestError"
           /\ jobCall'.outcome.msg = "No data"
           /\ sqlLog' = <<>>
           /\ jobs' = jobs ]_vars

\* C4 witness: Job.update with no data on an existing job was refused
C4_Witness ==
  /\ jobCall.method = "update"
  /\ jobCall.data = <<>>
  /\ jobCall.id = 1
  /\ jobCall.outcome.kind = "BadRequestError"
  /\ jobs = FixtureJobs

UpdateIssued == jobCall.method = "update" /\ Len(jobCall.data) > 0

\* C7: Job.update with n keys hands the database one statement whose WHERE
\* clause uses placeholder $(n+1) and whose parameters are the n values of
\* data followed by id; every SET placeholder is among $1..$n.
C7_IdBoundLast ==
  UpdateIssued =>
    LET n == Len(jobCall.data) IN
    /\ Len(sqlLog) = 1
    /\ sqlLog[1].params = Values(jobCall.data) \o <<NumV(jobCall.id)>>
    /\ Placeholders(WhereOperand(sqlLog[1].text)) = <<n + 1>>
    /\ sqlLog[1].params[n + 1] = NumV(jobCall.id)
    /\ Len(Placeholders(SetClause(sqlLog[1].text))) = n
    /\ \A i \in 1..n : Placeholders(SetClause(sqlLog[1].text))[i] \in 1..n

\* C7 witness: a two-key update of job 2 reached the database with id as $3
C7_Witness ==
  /\ UpdateIssued
  /\ jobCall.id = 2
  /\ Len(jobCall.data) = 2
  /\ jobCall.outcome.kind = "return"
  /\ Placeholders(WhereOperand(sqlLog[1].text)) = <<3>>

\* the last call was made by the GET /jobs route for the request req
GetJobsHandled == req.route = "GET /jobs" /\ jobCall.method \in {"filter", "findAll"}

\* C13: GET /jobs calls Job.filter exactly for a request with at least one
\* query parameter and Job.findAll otherwise; a statement with a WHERE
\* clause comes from Job.filter only and has a non-empty predicate, and the
\* statement of Job.findAll has no WHERE clause.
C13_WhereOnlyWithPredicate ==
  GetJobsHandled =>
    /\ jobCall.method = "filter" <=> Len(req.query) > 0
    /\ jobCall.method = "findAll" <=> Len(req.query) = 0
    /\ jobCall.method = "filter" => jobCall.data = req.query
    /\ \A i \in 1..Len(sqlLog) :
         HasWhere(sqlLog[i].text)
           => /\ jobCall.method = "filter"
              /\ Len(req.query) > 0
              /\ Len(WherePredicate(sqlLog[i].text)) > 0
    /\ jobCall.method = "findAll"
         => /\ Len(sqlLog) = 1
            /\ ~HasWhere(sqlLog[1].text)

\* C13 witness: a request without query parameters was answered by
\* Job.findAll with the three fixture jobs and a statement without WHERE
C13_Witness ==
  /\ GetJobsHandled
  /\ req.query = <<>>
  /\ jobCall.method = "findAll"
  /\ sqlLog = <<[text |-> SelectHead \o SelectOrder, params |-> <<>>]>>
  /\ resJson.sent
  /\ Len(resJson.body) = 3
  /\ resJson.body[1].id = 3 /\ resJson.body[2].id = 2 /\ resJson.body[3].id = 1

\* the messages of the four documented validation failures
DocumentedFailures ==
  {"No data", "invalid query parameter", "invalid query value",
   "minEmployees cannot be larger than maxEmployees"}

\* C15: a failure of a compiler inside a Job call is a BadRequestError with
\* one of the four documented messages, and the GET /jobs route hands that
\* BadRequestError to next.
C15_OnlyDocumentedFailures ==
  /\ (jobCall.method = "update" /\ jobCall.outcome.kind # "return" /\ sqlLog = <<>>)
       => /\ jobCall.outcome.kind = "BadRequestError"
          /\ jobCall.outcome.msg \in DocumentedFailures
  /\ (jobCall.method = "filter" /\ filterRes.kind # "return")
       => /\ filterRes.kind = "BadRequestError"
          /\ filterRes.msg \in DocumentedFailures
          /\ Len(nextCalls) = 1
          /\ nextCalls[1].kind = "BadRequestError"

JobFilterKeys == {S_title, S_minSalary, S_hasEquity}

\* the last call is Job.filter on job filter keys with accepted values
AcceptedJobFilter ==
  /\ jobCall.method = "filter"
  /\ Len(jobCall.data) > 0
  /\ \A i \in 1..Len(jobCall.data) :
       /\ jobCall.data[i][1] \in JobFilterKeys
       /\ ~Includes(REJECTEDVALUES, jobCall.data[i][2])
       /\ jobCall.data[i][1] = S_minSalary => AllDigits(jobCall.data[i][2])

\* a job against the filters of a request, as the route documents them
JobMatches(row, q) ==
  \A i \in 1..Len(q) :
    /\ q[i][1] = S_title
         => /\ row.title.t = "string"
            /\ FirstIndex(ToLowerCase(row.title.s), ToLowerCase(q[i][2])) > 0
    /\ q[i][1] = S_minSalary
         => /\ row.salary.t = "number"
            /\ row.salary.n >= DecimalValue(q[i][2])
    /\ (q[i][1] = S_hasEquity /\ IsTrueIgnoringCase(q[i][2]))
         => /\ row.equity.t = "number"
            /\ row.equity.n > 0

\* C16: Job.filter on job filter keys with accepted values returns the jobs
\* that satisfy every filter, ordered by title, throws NotFoundError exactly
\* when there is none, and ends with no other error.
C16_FilterReturnsMatches ==
  AcceptedJobFilter =>
    LET matches == {r \in jobs : JobMatches(r, jobCall.data)} IN
    IF matches = {}
    THEN jobCall.outcome.kind = "NotFoundError"
    ELSE /\ jobCall.outcome.kind = "return"
         /\ jobCall.outcome.value \in OrderedByTitle(matches)

\* C17: GET /jobs with a key that is no job filter key, or with a blank
\* value, hands a BadRequestError to next and sends no body.
C17_BadQueryIsBadRequest ==
  (/\ GetJobsHandled
   /\ \E i \in 1..Len(req.query) :
        \/ req.query[i][1] \notin JobFilterKeys
        \/ req.query[i][2] \in {<<>>, <<" ">>})
    => /\ Len(nextCalls) = 1
       /\ nextCalls[1].kind = "BadRequestError"
       /\ ~resJson.sent

----------------------------------------------------------------------------
(* The predicate of the filter compiler run against a jobs table.          *)

\* the fixture after Job.update(3, {equity: null}): one job has no equity
JobsWithNullEquity == Job_update(FixtureJobs, 3, << <<S_equity, Null>> >>).jobs

\* a request without its hasEquity key
WithoutEquity(q) == SelectSeq(q, LAMBDA kv : kv[1] # S_hasEquity)

\* the rows a request selects: those of Job.findAll for no filter, those of
\* Job.filter's statement on the compiled predicate otherwise
Selected(table, q, a) ==
  IF Len(q) = 0
  THEN DbSelect(table, SelectHead \o SelectOrder)
  ELSE DbSelect(table, FilterSql(sqlForFilterQueries(q, a).value))

\* C18: for a compiled job search whose hasEquity is false, the
\* statement selects exactly the jobs the other filters select, a job
\* with equity 0 and a job with null equity among them.
C18_FalseEquityNoRestriction ==
  (/\ FilterReturned
   /\ HasKey(queries, S_hasEquity)
   /\ Get(queries, S_hasEquity) = S_false
   /\ \A i \in 1..Len(queries) : KeyAt(i) \in JobFilterKeys
   /\ ~Selected(JobsWithNullEquity, WithoutEquity(queries), allowed).error)
    => /\ ~Selected(JobsWithNullEquity, queries, allowed).error
       /\ Selected(JobsWithNullEquity, queries, allowed).rows
            = Selected(JobsWithNullEquity, WithoutEquity(queries), allowed).rows

----------------------------------------------------------------------------
(* Calls of the two compilers one after the other, in any order and on any *)
(* arguments.  pc names the compiler called last; jobCall holds the        *)
(* arguments as they were passed, the call made just before and whether    *)
(* the compiler's previous call had the same arguments; queries, allowed,  *)
(* dataToUpdate and jsToSql are the argument objects after the call.       *)

\* arguments of the sequences: a text filter with an accepted and a
\* rejected value, a bound, a key outside every allow-list
SeqFilterValues(k) ==
  IF k = S_name THEN {<<"a">>, <<>>}
  ELSE IF k = S_minEmployees THEN {<<"1">>}
  ELSE {<<"a">>}

SeqFilterRequests ==
  {q \in Objects({S_name, S_minEmployees, S_cats}, {<<"a">>, <<"1">>, <<>>}, MaxKeys) :
     \A i \in 1..Len(q) : q[i][2] \in SeqFilterValues(q[i][1])}
\* the allow-list of the tests and a narrower one
SeqAllowLists == {TestAllowed, JobAllowed}

SeqUpdateRequests == Objects({S_firstName, S_email}, {Str(<<"a">>), Null}, MaxKeys)

InitCalls ==
  /\ pc = "idle"
  /\ queries = <<>>
  /\ allowed = Undefined
  /\ filterRes = NotCalled
  /\ dataToUpdate = <<>>
  /\ jsToSql = <<>>
  /\ updateRes = NotCalled
  /\ jobs = <<>>
  /\ jobIdSeq = 0
  /\ users = {}
  /\ sqlLog = <<>>
  /\ jobCall = [method |-> "none", args |-> <<>>, outcome |-> NotCalled,
                after |-> "none", repeated |-> FALSE]
  /\ nCalls = 0
  /\ InitWeb

\* sqlForFilterQueries(q, a): reads q, a and REJECTEDVALUES, assigns nothing
CompileFilter(q, a) ==
  /\ nCalls < MaxCompilerCalls
  /\ pc' = "filter"
  /\ queries' = q
  /\ allowed' = a
  /\ filterRes' = sqlForFilterQueries(q, a)
  /\ jobCall' = [method |-> "sqlForFilterQueries", args |-> <<q, a>>,
                 outcome |-> sqlForFilterQueries(q, a),
                 after |-> jobCall.method,
                 repeated |-> filterRes.kind # "none" /\ q = queries /\ a = allowed]
  /\ nCalls' = nCalls + 1
  /\ UNCHANGED <<dataToUpdate, jsToSql, updateRes, jobs, jobIdSeq, users, sqlLog>>
  /\ UNCHANGED webVars

\* sqlForPartialUpdate(d, m): reads d and m, assigns nothing
CompileUpdate(d, m) ==
  /\ nCalls < MaxCompilerCalls
  /\ pc' = "update"
  /\ dataToUpdate' = d
  /\ jsToSql' = m
  /\ updateRes' = sqlForPartialUpdate(d, m)
  /\ jobCall' = [method |-> "sqlForPartialUpdate", args |-> <<d, m>>,
                 outcome |-> sqlForPartialUpdate(d, m),
                 after |-> jobCall.method,
                 repeated |-> updateRes.kind # "none" /\ d = dataToUpdate /\ m = jsToSql]
  /\ nCalls' = nCalls + 1
  /\ UNCHANGED <<queries, allowed, filterRes, jobs, jobIdSeq, users, sqlLog>>
  /\ UNCHANGED webVars

NextCalls ==
  \/ \E q \in SeqFilterRequests, a \in SeqAllowLists : CompileFilter(q, a)
  \/ \E d \in SeqUpdateRequests, m \in NameMaps : CompileUpdate(d, m)

SpecCalls == InitCalls /\ [][NextCalls]_vars

----------------------------------------------------------------------------
(* middleware/auth.js: authenticateJWT and ensureLoggedIn.                 *)
(* A token is one element of a header's text; a payload is the user it     *)
(* names (its iat field is left out).                                      *)

SECRET_KEY == "SECRET_KEY"

User(name, admin) == [set |-> TRUE, username |-> name, isAdmin |-> admin]

\* the tokens of the middleware tests: two signed with SECRET_KEY, one not
SignedTokens ==
  { [token |-> "testJwt", key |-> SECRET_KEY, payload |-> User(<<"t", "e", "s", "t">>, FALSE)],
    [token |-> "testAdminJwt", key |-> SECRET_KEY,
     payload |-> User(<<"t", "e", "s", "t", "A", "d", "m", "i", "n">>, TRUE)],
    [token |-> "badJwt", key |-> "wrong", payload |-> User(<<"t", "e", "s", "t">>, FALSE)] }

\* jwt.verify(token, key): the payload of a token signed with key, an error
\* for any other text
jwtVerify(token, key) ==
  IF Len(token) = 1 /\ \E t \in SignedTokens : t.token = token[1] /\ t.key = key
  THEN Return((CHOOSE t \in SignedTokens : t.token = token[1] /\ t.key = key).payload)
  ELSE Throw("JsonWebTokenError", "invalid token")

\* authHeader.replace(/^[Bb]earer /, "")
StripBearer(h) ==
  IF \/ StartsAt(h, <<"B", "e", "a", "r", "e", "r", " ">>, 1)
     \/ StartsAt(h, <<"b", "e", "a", "r", "e", "r", " ">>, 1)
  THEN SubSeq(h, 8, Len(h))
  ELSE h

\* req.headers && req.headers.authorization is truthy
HasAuthHeader(r) ==
  r.headers.defined /\ r.headers.hasAuth /\ Len(r.headers.authorization) > 0

\* C19 mutant: a token that does not verify is reported to next
authenticateJWT_ErrorToNext(r, locals) ==
  IF HasAuthHeader(r)
  THEN LET token == TrimEnd(TrimStart(StripBearer(r.headers.authorization)))
           verified == jwtVerify(token, SECRET_KEY)
       IN  IF verified.kind = "return"
           THEN [locals |-> [locals EXCEPT !.user = verified.value], next |-> <<NoError>>]
           ELSE [locals |-> locals, next |-> <<verified>>]
  ELSE [locals |-> locals, next |-> <<NoError>>]

\* authenticateJWT(req, res, next): res.locals after the call and the calls
\* of next it made
authenticateJWT(r, locals) ==
  IF HasAuthHeader(r)
  THEN LET token == TrimEnd(TrimStart(StripBearer(r.headers.authorization)))
           verified == jwtVerify(token, SECRET_KEY)
       IN  IF verified.kind = "return"
           THEN [locals |-> [locals EXCEPT !.user = verified.value], next |-> <<NoError>>]
           ELSE [locals |-> locals, next |-> <<NoError>>]
  ELSE [locals |-> locals, next |-> <<NoError>>]

\* C20 mutant: only an admin passes
ensureLoggedIn_AdminOnly(r, locals) ==
  IF ~(locals.user.set /\ locals.user.isAdmin)
  THEN [locals |-> locals, next |-> <<Throw("UnauthorizedError", "")>>]
  ELSE [locals |-> locals, next |-> <<NoError>>]

\* ensureLoggedIn(req, res, next)
ensureLoggedIn(r, locals) ==
  IF ~locals.user.set
  THEN [locals |-> locals, next |-> <<Throw("UnauthorizedError", "")>>]
  ELSE [locals |-> locals, next |-> <<NoError>>]

S_username == <<"u", "s", "e", "r", "n", "a", "m", "e">>

\* req.params.username when it is truthy
HasUsernameParam(r) ==
  HasKey(r.params, S_username) /\ Len(Get(r.params, S_username)) > 0

\* reading a property of res.locals.user when there is no user
NoUserTypeError == Throw("TypeError", "Cannot read properties of undefined")

\* C21 mutant: the username parameter is not looked at
isAuthorized_AdminOnly(r, locals) ==
  IF ~locals.user.set
  THEN [locals |-> locals, next |-> <<NoUserTypeError>>]
  ELSE IF ~locals.user.isAdmin
       THEN [locals |-> locals, next |-> <<Throw("UnauthorizedError", "Not an admin.")>>]
       ELSE [locals |-> locals, next |-> <<NoError>>]

\* isAuthorized(req, res, next): both branches read a property of
\* res.locals.user first, which throws when there is no user; whatever is
\* thrown is caught and passed to next
isAuthorized(r, locals) ==
  IF HasUsernameParam(r)
  THEN IF ~locals.user.set
       THEN [locals |-> locals, next |-> <<NoUserTypeError>>]
       ELSE IF locals.user.username # Get(r.params, S_username) /\ ~locals.user.isAdmin
            THEN [locals |-> locals,
                  next |-> <<Throw("UnauthorizedError", "User is not authorized")>>]
            ELSE [locals |-> locals, next |-> <<NoError>>]
  ELSE IF ~locals.user.set
       THEN [locals |-> locals, next |-> <<NoUserTypeError>>]
       ELSE IF ~locals.user.isAdmin
            THEN [locals |-> locals, next |-> <<Throw("UnauthorizedError", "Not an admin.")>>]
            ELSE [locals |-> locals, next |-> <<NoError>>]

\* authorization headers: a scheme, blanks, a token, blanks
AuthSchemes == {<<>>, <<"B", "e", "a", "r", "e", "r", " ">>, <<"b", "e", "a", "r", "e", "r", " ">>, <<"B", "E", "A", "R", "E", "R", " ">>, <<"T", "o", "k", "e", "n", " ">>}
AuthTokens == {<<"testJwt">>, <<"testAdminJwt">>, <<"badJwt">>, <<"x">>, <<>>}
AuthPads == {<<>>, <<" ">>}

AuthTexts == {sch \o p1 \o tok \o p2 : sch \in AuthSchemes, p1 \in AuthPads,
                                       tok \in AuthTokens, p2 \in AuthPads}

\* req.params: no username, the test user's, another user's
AuthParams ==
  {<<>>} \cup {<< <<S_username, n>> >> : n \in {<<"t", "e", "s", "t">>, <<"t", "e", "s", "t", "T", "e", "s", "t">>}}

AuthRequests ==
  {[route |-> "any", query |-> <<>>, headers |-> h, params |-> p, body |-> <<>>] :
     h \in {NoHeaders, Headers(FALSE, <<>>)} \cup {Headers(TRUE, t) : t \in AuthTexts},
     p \in AuthParams}

\* res.locals when a middleware is entered
EntryLocals ==
  {Locals(NoUser), Locals(User(<<"t", "e", "s", "t">>, FALSE)), Locals(User(<<"t", "e", "s", "t", "A", "d", "m", "i", "n">>, TRUE))}

InitAuth ==
  /\ pc = "call"
  /\ req \in AuthRequests
  /\ resLocals \in EntryLocals
  /\ nextCalls = <<>>
  /\ resJson = NoJson
  /\ queries = <<>>
  /\ allowed = Undefined
  /\ filterRes = NotCalled
  /\ dataToUpdate = <<>>
  /\ jsToSql = <<>>
  /\ updateRes = NotCalled
  /\ jobs = <<>>
  /\ jobIdSeq = 0
  /\ users = {}
  /\ sqlLog = <<>>
  /\ jobCall = NotCalled
  /\ nCalls = 0

CallAuthenticateJWT ==
  /\ pc = "call"
  /\ resLocals' = authenticateJWT(req, resLocals).locals
  /\ nextCalls' = nextCalls \o authenticateJWT(req, resLocals).next
  /\ pc' = "authenticateJWT"
  /\ UNCHANGED <<queries, allowed, filterRes, dataToUpdate, jsToSql, updateRes,
                 jobs, jobIdSeq, users, sqlLog, jobCall, nCalls, req, resJson>>

CallEnsureLoggedIn ==
  /\ pc = "call"
  /\ resLocals' = ensureLoggedIn(req, resLocals).locals
  /\ nextCalls' = nextCalls \o ensureLoggedIn(req, resLocals).next
  /\ pc' = "ensureLoggedIn"
  /\ UNCHANGED <<queries, allowed, filterRes, dataToUpdate, jsToSql, updateRes,
                 jobs, jobIdSeq, users, sqlLog, jobCall, nCalls, req, resJson>>

CallIsAuthorized ==
  /\ pc = "call"
  /\ resLocals' = isAuthorized(req, resLocals).locals
  /\ nextCalls' = nextCalls \o isAuthorized(req, resLocals).next
  /\ pc' = "isAuthorized"
  /\ UNCHANGED <<queries, allowed, filterRes, dataToUpdate, jsToSql, updateRes,
                 jobs, jobIdSeq, users, sqlLog, jobCall, nCalls, req, resJson>>

NextAuth == CallAuthenticateJWT \/ CallEnsureLoggedIn \/ CallIsAuthorized

SpecAuth == InitAuth /\ [][NextAuth]_vars

\* the token of an authorization header: the text after an optional
\* leading 'Bearer ' or 'bearer ', without the blanks around it
HeaderToken(h) ==
  LET rest == IF Len(h) >= 7 /\ h[1] \in {"B", "b"}
                   /\ SubSeq(h, 2, 7) = <<"e", "a", "r", "e", "r", " ">>
              THEN SubSeq(h, 8, Len(h)) ELSE h
      inner == {i \in 1..Len(rest) : rest[i] # " "}
  IN  IF inner = {} THEN <<>>
      ELSE SubSeq(rest, CHOOSE i \in inner : \A j \in inner : i <= j,
                        CHOOSE i \in inner : \A j \in inner : i >= j)

\* the header's token is one signed with SECRET_KEY
Verifies(r) ==
  /\ r.headers.defined
  /\ r.headers.hasAuth
  /\ \E t \in SignedTokens : t.key = SECRET_KEY /\ HeaderToken(r.headers.authorization) = <<t.token>>

\* C19: authenticateJWT calls next once, without an error; it sets
\* res.locals.user to the payload when the request has an authorization
\* header whose token verifies with SECRET_KEY, and leaves res.locals as it
\* was in every other case.
C19_AuthenticateNeverFails ==
  [][ pc' = "authenticateJWT" =>
        /\ nextCalls' = <<NoError>>
        /\ Verifies(req) =>
             \E t \in SignedTokens :
               /\ t.key = SECRET_KEY
               /\ <<t.token>> = HeaderToken(req.headers.authorization)
               /\ resLocals' = Locals(t.payload)
        /\ ~Verifies(req) => resLocals' = resLocals ]_vars

\* C19 witness: a bearer header with the test user's token set the user
C19_Witness ==
  /\ pc = "authenticateJWT"
  /\ req.headers.authorization = <<"B", "e", "a", "r", "e", "r", " ">> \o <<"testJwt">>
  /\ resLocals = Locals(User(<<"t", "e", "s", "t">>, FALSE))
  /\ nextCalls = <<NoError>>

\* C20: ensureLoggedIn calls next once: without an error when
\* res.locals.user is set, for a user and for an admin, with an
\* UnauthorizedError otherwise; res.locals stays as it was.
C20_LoggedInOrUnauthorized ==
  [][ pc' = "ensureLoggedIn" =>
        /\ Len(nextCalls') = 1
        /\ resLocals.user.set => nextCalls'[1] = NoError
        /\ ~resLocals.user.set => nextCalls'[1].kind = "UnauthorizedError"
        /\ resLocals' = resLocals ]_vars

\* C20 witness: a user who is no admin passed
C20_Witness ==
  /\ pc = "ensureLoggedIn"
  /\ resLocals = Locals(User(<<"t", "e", "s", "t">>, FALSE))
  /\ nextCalls = <<NoError>>

\* C21: for a logged-in user isAuthorized calls next without an error
\* exactly when the user is an admin or the route's username parameter is
\* the user's own username; in every other case it calls next with an
\* UnauthorizedError.
C21_AdminOrOwnUsername ==
  [][ (pc' = "isAuthorized" /\ resLocals.user.set) =>
        LET own == /\ HasKey(req.params, S_username)
                   /\ Get(req.params, S_username) = resLocals.user.username
        IN  /\ Len(nextCalls') = 1
            /\ (resLocals.user.isAdmin \/ own) <=> nextCalls'[1] = NoError
            /\ ~(resLocals.user.isAdmin \/ own) => nextCalls'[1].kind = "UnauthorizedError" ]_vars

\* C21 witness: the test user passed on a route naming the test user
C21_Witness ==
  /\ pc = "isAuthorized"
  /\ resLocals = Locals(User(<<"t", "e", "s", "t">>, FALSE))
  /\ req.params = << <<S_username, <<"t", "e", "s", "t">> >> >>
  /\ nextCalls = <<NoError>>

\* C29: isAuthorized calls next exactly once, and whenever it does not
\* authorize, the error it passes is an UnauthorizedError, also when
\* res.locals.user is absent.
C29_RefusalIsUnauthorized ==
  [][ pc' = "isAuthorized" =>
        /\ Len(nextCalls') = 1
        /\ nextCalls'[1] # NoError => nextCalls'[1].kind = "UnauthorizedError" ]_vars

\* the jobs whose title, salary, equity and companyHandle are those of data
SameJob(table, data) ==
  {r \in table : <<r.title, r.salary, r.equity, r.companyHandle>> = CreateParams(data)}

\* C24: Job.create with data equal in title, salary, equity and
\* companyHandle to a job of the table throws BadRequestError and leaves
\* the table unchanged; any other Job.create adds exactly one row, with the
\* data's values and an id no row had, and returns it.
C24_DuplicateRefusedElseInserted ==
  [][ (nCalls' = nCalls + 1 /\ jobCall'.method = "create") =>
        IF SameJob(jobs, jobCall'.data) # {}
        THEN /\ jobCall'.outcome.kind = "BadRequestError"
             /\ jobs' = jobs
        ELSE /\ jobCall'.outcome.kind = "return"
             /\ jobs' = jobs \cup {jobCall'.outcome.value}
             /\ jobCall'.outcome.value \notin jobs
             /\ \A r \in jobs : r.id # jobCall'.outcome.value.id
             /\ SameJob({jobCall'.outcome.value}, jobCall'.data) # {} ]_vars

\* C25: Job.get, Job.update with data and Job.remove with an id of no job
\* throw NotFoundError and leave the table unchanged; Job.remove with the id
\* of a job deletes that row and no other; Job.get changes nothing.
C25_NotFoundChangesNothing ==
  [][ (nCalls' = nCalls + 1 /\ \/ jobCall'.method \in {"get", "remove"}
                               \/ jobCall'.method = "update" /\ Len(jobCall'.data) > 0) =>
        LET hit == {r \in jobs : r.id = jobCall'.id} IN
        /\ hit = {} => /\ jobCall'.outcome.kind = "NotFoundError"
                       /\ jobs' = jobs
        /\ (hit # {} /\ jobCall'.method = "remove")
             => /\ jobCall'.outcome.kind = "return"
                /\ jobs' = jobs \ hit
                /\ Cardinality(jobs') = Cardinality(jobs) - 1
        /\ (hit # {} /\ jobCall'.method = "get")
             => /\ jobCall'.outcome = Return(CHOOSE r \in hit : TRUE)
                /\ jobs' = jobs ]_vars

\* C25 witness: job 2 was removed and the two other fixture jobs are left
C25_Witness ==
  /\ jobCall.method = "remove"
  /\ jobCall.id = 2
  /\ jobCall.outcome.kind = "return"
  /\ jobs = {r \in FixtureJobs : r.id # 2}

----------------------------------------------------------------------------
(* Job.create calls in flight at the same time.  A call stops at each of   *)
(* its two awaits: the database runs the duplicate check, and later the    *)
(* INSERT, of one call between the statements of another.                  *)

Creators == 1..MaxCreators

\* data of concurrent creates: no null values, the fixture's associate job
\* among them
RaceCreateRequests ==
  { << <<S_title, t>>, <<S_salary, sal>>, <<S_equity, NumV(0)>>,
       <<S_companyHandleKey, Str(<<"c", "3">>)>> >> :
      t \in {Str(<<"a", "s", "s", "o", "c", "i", "a", "t", "e">>), Str(<<"a">>), Str(<<"b">>)},
      sal \in {NumV(35000), NumV(1)} }

InitRace ==
  /\ pc = [c \in Creators |-> "called"]
  /\ \E d \in [Creators -> RaceCreateRequests] :
       jobCall = [c \in Creators |->
                    [method |-> "create", id |-> 0, data |-> d[c], rows |-> {},
                     outcome |-> NotCalled]]
  /\ jobs = FixtureJobs
  /\ jobIdSeq = FixtureIdSeq
  /\ users = FixtureUsers
  /\ sqlLog = <<>>
  /\ nCalls = 0
  /\ queries = <<>>
  /\ allowed = Undefined
  /\ filterRes = NotCalled
  /\ dataToUpdate = <<>>
  /\ jsToSql = <<>>
  /\ updateRes = NotCalled
  /\ InitWeb

\* the database answers the duplicate check of call c
DuplicateChecked(c) ==
  /\ pc[c] = "called"
  /\ LET params == CreateParams(jobCall[c].data) IN
       /\ jobCall' = [jobCall EXCEPT ![c].rows = DuplicateRows(jobs, params)]
       /\ sqlLog' = Append(sqlLog, [text |-> DuplicateCheckSql, params |-> params])
  /\ pc' = [pc EXCEPT ![c] = "checked"]
  /\ UNCHANGED <<jobs, jobIdSeq, users, nCalls, queries, allowed, filterRes, dataToUpdate,
                 jsToSql, updateRes, webVars>>

\* call c goes on after its check: it throws, or the database runs its
\* INSERT and the call returns the new row
CreateFinished(c) ==
  /\ pc[c] = "checked"
  /\ LET params == CreateParams(jobCall[c].data) IN
       IF jobCall[c].rows # {}
       THEN /\ jobCall' = [jobCall EXCEPT
                             ![c].outcome = Throw("BadRequestError", "Duplicate job")]
            /\ UNCHANGED <<jobs, jobIdSeq, sqlLog>>
       ELSE /\ jobs' = jobs \cup {InsertedRow(jobIdSeq, params)}
            /\ jobIdSeq' = jobIdSeq + 1
            /\ sqlLog' = Append(sqlLog, [text |-> InsertSql, params |-> params])
            /\ jobCall' = [jobCall EXCEPT
                             ![c].outcome = Return(InsertedRow(jobIdSeq, params))]
  /\ pc' = [pc EXCEPT ![c] = "done"]
  /\ nCalls' = nCalls + 1
  /\ UNCHANGED <<users, queries, allowed, filterRes, dataToUpdate, jsToSql, updateRes, webVars>>

NextRace == \E c \in Creators : DuplicateChecked(c) \/ CreateFinished(c)

SpecRace == InitRace /\ [][NextRace]_vars

\* C28: whatever the interleaving of concurrent Job.create calls, no two
\* rows of the jobs table have the same title, salary, equity and
\* companyHandle, and of two finished calls with the same data at most one
\* returned a row, the other threw BadRequestError.
C28_NoDuplicateRows ==
  /\ \A r1, r2 \in jobs :
       <<r1.title, r1.salary, r1.equity, r1.companyHandle>>
         = <<r2.title, r2.salary, r2.equity, r2.companyHandle>> => r1 = r2
  /\ \A c1, c2 \in Creators :
       (c1 # c2 /\ pc[c1] = "done" /\ pc[c2] = "done" /\ jobCall[c1].data = jobCall[c2].data)
         => \/ jobCall[c1].outcome.kind = "BadRequestError"
            \/ jobCall[c2].outcome.kind = "BadRequestError"

----------------------------------------------------------------------------

\* some value of the request is a sentinel
SomeValueRejected == \E i \in 1..Len(queries) : ValueAt(i) \in SentinelValues

\* both employee bounds are given and minEmployees, as a number, is not below
\* maxEmployees
RangeOutOfOrder ==
  /\ HasKey(queries, S_minEmployees)
  /\ HasKey(queries, S_maxEmployees)
  /\ LET lo == ToNumber(Get(queries, S_minEmployees))
         hi == ToNumber(Get(queries, S_maxEmployees))
     IN  ~lo.nan /\ ~hi.nan /\ lo.n >= hi.n

\* C27: sqlForFilterQueries checks the allow-list, then the rejected values,
\* then the employee range, and the first check that fails decides the
\* error: a disallowed key wins over a rejected value and a range violation,
\* a rejected value wins over a range violation; a failed call has built no
\* fragment.
C27_FirstViolationDecides ==
  (FilterDone /\ allowed.defined) =>
    /\ SomeKeyNotAllowed => filterRes.msg = "invalid query parameter"
    /\ (AllKeysAllowed /\ SomeValueRejected) => filterRes.msg = "invalid query value"
    /\ (AllKeysAllowed /\ ~SomeValueRejected /\ RangeOutOfOrder)
         => filterRes.msg = "minEmployees cannot be larger than maxEmployees"
    /\ (AllKeysAllowed /\ ~SomeValueRejected /\ ~RangeOutOfOrder)
         => filterRes.kind = "return"
    /\ filterRes.kind # "return" => filterRes.kind = "BadRequestError" /\ filterRes.value = <<>>

\* C27 witness: a blank maxEmployees below minEmployees was refused as a
\* value, not as a range
C27_Witness ==
  /\ FilterDone
  /\ allowed = TestAllowed
  /\ queries = << <<S_minEmployees, <<"1">> >>, <<S_maxEmployees, <<" ">> >> >>
  /\ RangeOutOfOrder
  /\ filterRes = Throw("BadRequestError", "invalid query value")

\* C30: in a returned predicate the fragment of a free-text key is one
\* comparison whose quoted pattern holds the whole value, in lower case,
\* between the two % signs: no character of the value ends the quoted text,
\* so requests with the same keys have predicates of the same shape.
C30_ValueStaysInLiteral ==
  FilterReturned =>
    /\ Len(queries) > 0 => Len(Pieces) = Len(queries)
    /\ \A i \in 1..Len(queries) :
         FreeTextKey(KeyAt(i))
           => LET head == LikeHead \o KeyAt(i) \o LikeMid
                  pattern == SubSeq(Pieces[i], Len(head) + 1, Len(Pieces[i]) - Len(LikeEnd))
              IN  /\ StartsAt(Pieces[i], head, 1)
                  /\ StartsAt(Pieces[i], LikeEnd, Len(Pieces[i]) - 1)
                  /\ LiteralOk(pattern)
                  /\ LiteralText(pattern) = ToLowerCase(ValueAt(i))

----------------------------------------------------------------------------
(* routes/jobs.js and routes/users.js: the routes declared with            *)
(* ensureLoggedIn and isAuthorized in front of their handler.  A request   *)
(* enters the route with res.locals as the application's middleware left   *)
(* it.  The schemas, the User model and the error classes are modelled by  *)
(* what the route tests show of them.                                      *)

\* status of the response to an error handed to next: the error's status
ErrorStatus(err) ==
  IF err.kind = "UnauthorizedError" THEN 401
  ELSE IF err.kind = "BadRequestError" THEN 400
  ELSE IF err.kind = "NotFoundError" THEN 404
  ELSE 500

\* res.status(status).json(body)
Response(status, body) == [sent |-> TRUE, status |-> status, body |-> body]

\* jsonschema.validate(req.body, jobNewSchema).valid
JobNewValid(body) ==
  /\ \A i \in 1..Len(body) : body[i][1] \in {S_title, S_salary, S_equity, S_companyHandleKey}
  /\ HasKey(body, S_title) /\ Get(body, S_title).t = "string"
  /\ HasKey(body, S_companyHandleKey) /\ Get(body, S_companyHandleKey).t = "string"
  /\ HasKey(body, S_salary) => Get(body, S_salary).t = "number"
  /\ HasKey(body, S_equity)
       => Get(body, S_equity).t = "number" /\ Get(body, S_equity).n <= 1000

\* jsonschema.validate(req.body, jobUpdateSchema).valid
JobUpdateValid(body) ==
  /\ \A i \in 1..Len(body) : body[i][1] \in {S_title, S_salary, S_equity}
  /\ HasKey(body, S_title) => Get(body, S_title).t = "string"
  /\ HasKey(body, S_salary) => Get(body, S_salary).t = "number"
  /\ HasKey(body, S_equity)
       => Get(body, S_equity).t = "number" /\ Get(body, S_equity).n <= 1000

\* jsonschema.validate(req.body, userUpdateSchema).valid
UserUpdateValid(body) ==
  \A i \in 1..Len(body) :
    /\ body[i][1] \in {S_firstName, <<"l", "a", "s", "t", "N", "a", "m", "e">>,
                       <<"p", "a", "s", "s", "w", "o", "r", "d">>, S_email}
    /\ body[i][2].t = "string"

\* User.update(username, data) and User.remove(username) on the users table
User_update(table, username, data) ==
  IF Len(data) = 0
  THEN [users |-> table, outcome |-> Throw("BadRequestError", "No data")]
  ELSE IF username \notin table
  THEN [users |-> table, outcome |-> Throw("NotFoundError", "No user")]
  ELSE [users |-> table, outcome |-> Return(username)]

User_remove(table, username) ==
  IF username \notin table
  THEN [users |-> table, outcome |-> Throw("NotFoundError", "No user")]
  ELSE [users |-> table \ {username}, outcome |-> Return(<<>>)]

\* C22 mutant: the routes are declared with ensureLoggedIn only
Guards_LoginOnly(r, locals) ==
  LET a == ensureLoggedIn(r, locals) IN
  IF a.next # <<NoError>> THEN a
  ELSE [locals |-> a.locals, next |-> a.next \o <<NoError>>]

\* the two middlewares in front of a handler, in the order of the route's
\* declaration: the second runs when the first called next without an error
Guards(r, locals) ==
  LET a == ensureLoggedIn(r, locals) IN
  IF a.next # <<NoError>> THEN a
  ELSE LET b == isAuthorized(r, a.locals) IN
       [locals |-> b.locals, next |-> a.next \o b.next]

\* C23 mutant: the handler runs whatever the middlewares passed to next
Passed_Always(g) == TRUE

\* both middlewares called next without an error: the handler runs
Passed(g) == g.next = <<NoError, NoError>>

\* the middleware a refused request stopped in
RefusedIn(g) == IF Len(g.next) = 1 THEN "ensureLoggedIn" ELSE "isAuthorized"

\* what a handler did: the tables after it, the statements it ran, the model
\* call it made, the stage it reached and the response or the error
Handled(j, seq, u, log, call, stage, outcome, status) ==
  [jobs |-> j, seq |-> seq, users |-> u, log |-> log, call |-> call, stage |-> stage,
   json |-> IF outcome.kind = "return" THEN Response(status, outcome.value) ELSE NoJson,
   next |-> IF outcome.kind = "return" THEN <<>> ELSE <<outcome>>]

ModelCall(method, id, data, outcome) ==
  [method |-> method, id |-> id, data |-> data, outcome |-> outcome]

\* the handler after its model call c: res.json on a result, next(err) on
\* an error
JobCreated(c, data) ==
  Handled(c.jobs, c.seq, users, c.log, ModelCall("create", 0, data, c.outcome),
          "model", c.outcome, 201)

JobUpdated(c, id, data) ==
  Handled(c.jobs, jobIdSeq, users, c.log, ModelCall("update", id, data, c.outcome),
          "model", c.outcome, 200)

JobRemoved(c, id, deleted) ==
  Handled(c.jobs, jobIdSeq, users, c.log, ModelCall("remove", id, <<>>, c.outcome),
          "model", IF c.outcome.kind = "return" THEN Return(deleted) ELSE c.outcome, 200)

UserUpdated(c, data) ==
  Handled(jobs, jobIdSeq, c.users, <<>>, ModelCall("User.update", 0, data, c.outcome),
          "model", c.outcome, 200)

UserRemoved(c, deleted) ==
  Handled(jobs, jobIdSeq, c.users, <<>>, ModelCall("User.remove", 0, <<>>, c.outcome),
          "model", IF c.outcome.kind = "return" THEN Return(deleted) ELSE c.outcome, 200)

\* a body the schema refuses: BadRequestError before any model call
Invalid ==
  Handled(jobs, jobIdSeq, users, <<>>, NoJobCall, "validate",
          Throw("BadRequestError", "schema"), 400)

\* router.post("/") of the jobs routes
PostJob(r) ==
  IF ~JobNewValid(r.body) THEN Invalid
  ELSE JobCreated(Job_create(jobs, jobIdSeq, r.body), r.body)

\* the id of a route as the database reads the parameter
ParamId(r) == DecimalValue(Get(r.params, S_id))

\* C26 mutant: the handler calls Job.update without validating the body
PatchJob_NoValidation(r) ==
  JobUpdated(Job_update(jobs, ParamId(r), r.body), ParamId(r), r.body)

\* router.patch("/:id") of the jobs routes
PatchJob(r) ==
  IF ~JobUpdateValid(r.body) THEN Invalid
  ELSE JobUpdated(Job_update(jobs, ParamId(r), r.body), ParamId(r), r.body)

\* router.delete("/:id") of the jobs routes: { deleted: +req.params.id }
DeleteJob(r) ==
  JobRemoved(Job_remove(jobs, ParamId(r)), ParamId(r), ToNumber(Get(r.params, S_id)))

\* router.patch("/:username") of the users routes
PatchUser(r) ==
  IF ~UserUpdateValid(r.body) THEN Invalid
  ELSE UserUpdated(User_update(users, Get(r.params, S_username), r.body), r.body)

\* router.delete("/:username") of the users routes
DeleteUser(r) ==
  UserRemoved(User_remove(users, Get(r.params, S_username)), Get(r.params, S_username))

Handler(r) ==
  IF r.route = "POST /jobs" THEN PostJob(r)
  ELSE IF r.route = "PATCH /jobs/:id" THEN PatchJob(r)
  ELSE IF r.route = "DELETE /jobs/:id" THEN DeleteJob(r)
  ELSE IF r.route = "PATCH /users/:username" THEN PatchUser(r)
  ELSE DeleteUser(r)

\* res.locals of a request entering a route: of an anonymous request, of the
\* user u1, of the admin a1
Callers ==
  {Locals(NoUser), Locals(User(<<"u", "1">>, FALSE)), Locals(User(<<"a", "1">>, TRUE))}

JobPostBodies ==
  { << <<S_title, Str(<<"a">>)>>, <<S_salary, NumV(1)>>, <<S_equity, NumV(0)>>,
       <<S_companyHandleKey, Str(<<"c", "2">>)>> >>,
    << <<S_title, Str(<<"a", "s", "s", "o", "c", "i", "a", "t", "e">>)>>,
       <<S_salary, NumV(35000)>>, <<S_equity, NumV(0)>>,
       <<S_companyHandleKey, Str(<<"c", "3">>)>> >>,
    << <<S_title, Str(<<"a">>)>>, <<S_salary, NumV(1)>> >> }

JobPatchBodies ==
  { << <<S_title, Str(<<"a">>)>> >>,
    << <<S_salary, NumV(1)>>, <<S_equity, NumV(500)>> >>,
    << <<S_equity, NumV(0)>>, <<S_title, Str(<<"b">>)>> >>,
    <<>>,
    << <<S_id, NumV(9)>> >>,
    << <<S_companyHandleKey, Str(<<"c", "3">>)>> >>,
    << <<S_title, Str(<<"a">>)>>, <<S_id, NumV(9)>> >>,
    << <<S_salary, Str(<<"a">>)>> >>,
    << <<S_equity, NumV(2000)>> >> }

UserPatchBodies ==
  { << <<S_firstName, Str(<<"a">>)>> >>, << <<S_firstName, NumV(1)>> >>, <<>> }

RouteIds == {<<"0">>, <<"1">>, <<"2">>, <<"3">>}
RouteUsernames == {<<"u", "1">>, <<"u", "2">>, <<"n", "o", "p", "e">>}

RouteRequest(route, params, body) ==
  [route |-> route, query |-> <<>>, headers |-> NoHeaders, params |-> params, body |-> body]

\* one request to a guarded route: the middlewares, then the handler when
\* both passed, otherwise the error of the one that refused
Request(r, locals) ==
  /\ nCalls < MaxCalls
  /\ req' = r
  /\ \E g \in {Guards(r, locals)} :
       /\ resLocals' = g.locals
       /\ IF Passed(g)
          THEN \E h \in {Handler(r)} :
                 /\ jobs' = h.jobs
                 /\ jobIdSeq' = h.seq
                 /\ users' = h.users
                 /\ sqlLog' = h.log
                 /\ jobCall' = h.call
                 /\ pc' = h.stage
                 /\ resJson' = h.json
                 /\ nextCalls' = g.next \o h.next
          ELSE /\ pc' = RefusedIn(g)
               /\ sqlLog' = <<>>
               /\ jobCall' = NoJobCall
               /\ resJson' = NoJson
               /\ nextCalls' = g.next
               /\ UNCHANGED <<jobs, jobIdSeq, users>>
  /\ nCalls' = nCalls + 1
  /\ UNCHANGED <<queries, allowed, filterRes, dataToUpdate, jsToSql, updateRes>>

PostJobRequest(b, locals) ==
  /\ Request(RouteRequest("POST /jobs", <<>>, b), locals)

PatchJobRequest(i, b, locals) ==
  /\ Request(RouteRequest("PATCH /jobs/:id", << <<S_id, i>> >>, b), locals)

DeleteJobRequest(i, locals) ==
  /\ Request(RouteRequest("DELETE /jobs/:id", << <<S_id, i>> >>, <<>>), locals)

PatchUserRequest(n, b, locals) ==
  /\ Request(RouteRequest("PATCH /users/:username", << <<S_username, n>> >>, b), locals)

DeleteUserRequest(n, locals) ==
  /\ Request(RouteRequest("DELETE /users/:username", << <<S_username, n>> >>, <<>>), locals)

NextRoutes ==
  \/ \E b \in JobPostBodies, locals \in Callers : PostJobRequest(b, locals)
  \/ \E i \in RouteIds, b \in JobPatchBodies, locals \in Callers : PatchJobRequest(i, b, locals)
  \/ \E i \in RouteIds, locals \in Callers : DeleteJobRequest(i, locals)
  \/ \E n \in RouteUsernames, b \in UserPatchBodies, locals \in Callers :
       PatchUserRequest(n, b, locals)
  \/ \E n \in RouteUsernames, locals \in Callers : DeleteUserRequest(n, locals)

SpecRoutes == Init /\ [][NextRoutes]_vars

\* status of the answer to the request just handled
Answer(json, nexts) ==
  IF json.sent THEN json.status ELSE ErrorStatus(nexts[Len(nexts)])

\* the caller may use the route: an admin, or the user the route names
MayUse(r, locals) ==
  /\ locals.user.set
  /\ \/ locals.user.isAdmin
     \/ HasKey(r.params, S_username) /\ Get(r.params, S_username) = locals.user.username

\* C22: on a guarded route the handler runs only after ensureLoggedIn and
\* isAuthorized both passed: a request of an anonymous caller, or of a user
\* who is no admin and is not the user the route names, is answered 401 by
\* the middleware, with no validation, no model call and no statement run
\* and no table changed, whatever its body and whether or not the target
\* exists.
C22_HandlerOnlyAfterGuards ==
  [][ nCalls' = nCalls + 1 =>
        /\ pc' \in {"validate", "model"}
             => /\ Len(nextCalls') >= 2
                /\ nextCalls'[1] = NoError /\ nextCalls'[2] = NoError
                /\ MayUse(req', resLocals')
        /\ ~MayUse(req', resLocals')
             => /\ pc' \in {"ensureLoggedIn", "isAuthorized"}
                /\ Answer(resJson', nextCalls') = 401
                /\ ~resJson'.sent
                /\ jobCall' = NoJobCall
                /\ sqlLog' = <<>>
                /\ <<jobs', jobIdSeq', users'>> = <<jobs, jobIdSeq, users>> ]_vars

\* C22 witness: u1 patching a user that does not exist with an invalid body
\* was refused by isAuthorized
C22_Witness ==
  /\ req.route = "PATCH /users/:username"
  /\ req.params = << <<S_username, <<"n", "o", "p", "e">> >> >>
  /\ req.body = << <<S_firstName, NumV(1)>> >>
  /\ resLocals = Locals(User(<<"u", "1">>, FALSE))
  /\ pc = "isAuthorized"
  /\ nextCalls = <<NoError, Throw("UnauthorizedError", "User is not authorized")>>

JobRoutes == {"POST /jobs", "PATCH /jobs/:id", "DELETE /jobs/:id"}

\* C23: a POST /jobs, PATCH /jobs/:id or DELETE /jobs/:id request of a caller
\* who is no admin is answered 401 and leaves the jobs table as it was, so
\* the table only changes in a request of an admin and is the initial table
\* after any sequence of requests of other callers.
C23_OnlyAdminChangesJobs ==
  [][ nCalls' = nCalls + 1 =>
        /\ (req'.route \in JobRoutes /\ ~(resLocals'.user.set /\ resLocals'.user.isAdmin))
             => /\ Answer(resJson', nextCalls') = 401
                /\ jobs' = jobs
                /\ jobIdSeq' = jobIdSeq
        /\ jobs' # jobs
             => /\ req'.route \in JobRoutes
                /\ resLocals'.user.set /\ resLocals'.user.isAdmin ]_vars

\* C23 witness: two refused requests, the last a DELETE of job 2 by u1, and
\* the fixture's jobs are all there
C23_Witness ==
  /\ nCalls = 2
  /\ req.route = "DELETE /jobs/:id"
  /\ req.params = << <<S_id, <<"2">> >> >>
  /\ resLocals = Locals(User(<<"u", "1">>, FALSE))
  /\ nextCalls = <<NoError, Throw("UnauthorizedError", "Not an admin.")>>
  /\ jobs = FixtureJobs

\* the value data gives a field, the row's own value when data does not
\* name the field
Patched(data, k, old) == IF HasKey(data, k) THEN Get(data, k) ELSE old

\* C26: Job.update(id, data) on an existing job leaves every other row as it
\* was and, on the row with that id, sets title, salary and equity to the
\* values data names and leaves id, companyHandle and the fields data does
\* not name as they were; a PATCH /jobs/:id request whose body names id or
\* companyHandle is answered 400 and changes nothing.
C26_UpdateChangesNamedFieldsOnly ==
  [][ (nCalls' = nCalls + 1 /\ req'.route = "PATCH /jobs/:id") =>
        /\ (jobCall'.method = "update" /\ \E r \in jobs : r.id = jobCall'.id)
             => /\ \A k \in 1..Len(jobCall'.data) :
                     jobCall'.data[k][1] \in {S_title, S_salary, S_equity}
                /\ LET old == CHOOSE r \in jobs : r.id = jobCall'.id
                       d == jobCall'.data
                       new == [id |-> old.id,
                               title |-> Patched(d, S_title, old.title),
                               salary |-> Patched(d, S_salary, old.salary),
                               equity |-> Patched(d, S_equity, old.equity),
                               companyHandle |-> old.companyHandle]
                   IN  IF Len(d) = 0 THEN jobs' = jobs
                       ELSE /\ jobs' = (jobs \ {old}) \cup {new}
                            /\ jobCall'.outcome = Return(new)
        /\ (MayUse(req', resLocals')
              /\ (HasKey(req'.body, S_id) \/ HasKey(req'.body, S_companyHandleKey)))
             => /\ Answer(resJson', nextCalls') = 400
                /\ jobs' = jobs
                /\ sqlLog' = <<>> ]_vars

\* C26 witness: the admin's PATCH of job 2 with a salary and an equity
\* changed these two fields of that row
C26_Witness ==
  /\ req.route = "PATCH /jobs/:id"
  /\ jobCall.method = "update"
  /\ jobCall.id = 2
  /\ jobCall.data = << <<S_salary, NumV(1)>>, <<S_equity, NumV(500)>> >>
  /\ resJson.sent /\ resJson.status = 200
  /\ [id |-> 2, title |-> Str(<<"e", "n", "g", "i", "n", "e", "e", "r">>),
      salary |-> NumV(1), equity |-> NumV(500), companyHandle |-> Str(<<"c", "2">>)] \in jobs
  /\ {r \in jobs : r.id # 2} = {r \in FixtureJobs : r.id # 2}

====
